---- MODULE Spec2Model ----
(***************************************************************************)
(* A model of imagegen: the option resolver (imagegen/options.py), the     *)
(* payload extractor, asset namer and metadata redactor                    *)
(* (imagegen/imagegen.py) and the two entry_point points that drive them         *)
(* (imagegen/__init__.py main, imageedit/services/generation.py).          *)
(*                                                                         *)
(* Python strings are sequences of one-character strings, so that prefix,  *)
(* substring, case folding and concatenation are computed, not assumed.    *)
(* Python values of mixed type are tagged records: [t |-> "str", s |-> _], *)
(* [t |-> "int", n |-> _], [t |-> "none"], ...                            *)
(***************************************************************************)
EXTENDS Integers, Sequences, FiniteSets, TLC

VARIABLES
    pc,             \* where the operation stands
    sys_argv,       \* the command line handed to parse_args
    os_environ,     \* SOURCE_IMAGE_URL and SAFETENSORS_URL
    prompt_files,   \* the prompt files on disk: path -> text
    parsed,         \* what parse_args gave: a ParsedOptions, or the error raised
    payload,        \* the response of the remote call
    extracted,      \* the list _extract_urls returned
    entry_point,    \* the entry point that runs: "cli" (main) or "web" (run_generation)
    remote_calls,   \* how often client.run / client.subscribe was invoked
    timestamp,      \* time.strftime("%Y%m%d_%H%M%S") of line 70
    output_dir,     \* the assets directory: [exists, files: name -> content]
    output_dir_at_start,    \* the assets directory as the operation found it
    downloads,      \* how often _download was called
    written,        \* the list `written` of generate_images
    exif_calls,     \* the calls of exif.set_exif_data: [path, description, model]
    stdout,         \* the lines printed on the standard stream
    result,         \* what the entry point leaves: exit code and error stream, or the dict
    call_args,      \* the arguments of a function that is run on its own
    call_result,    \* what that function returned or raised
    styles_dir,     \* the style files of the editor: name -> text
    prompts_dir,    \* the prompt files of the editor: name -> text
    request,        \* the JSON body of the request the editor handled last
    response,       \* its response: [status, body]
    file_system     \* the files the editor's handlers see: a set of paths

parseVars == <<sys_argv, os_environ, prompt_files, parsed>>
extractVars == <<payload, extracted>>
runVars ==
    <<entry_point, remote_calls, timestamp, output_dir, output_dir_at_start, downloads,
      written, exif_calls, stdout, result>>
callVars == <<call_args, call_result>>
editVars == <<styles_dir, prompts_dir, request, response, file_system>>
vars == <<pc, parseVars, extractVars, runVars, callVars, editVars>>

None == [t |-> "none"]

----------------------------------------------------------------------------
(* Strings *)

Str(s) == [t |-> "str", s |-> s]
Bytes(s) == [t |-> "bytes", s |-> s]
Num(n) == [t |-> "int", n |-> n]
Bool(b) == [t |-> "bool", b |-> b]
Float10(n) == [t |-> "float", tenths |-> n]    \* a float, in tenths
\* a mapping, its items [key, val] in insertion order, and a list
Map(items) == [t |-> "map", items |-> items]
List(items) == [t |-> "seq", items |-> items]

UpperChars ==
    <<"A", "B", "C", "D", "E", "F", "G", "H", "I", "J", "K", "L", "M",
      "N", "O", "P", "Q", "R", "S", "T", "U", "V", "W", "X", "Y", "Z">>
LowerChars ==
    <<"a", "b", "c", "d", "e", "f", "g", "h", "i", "j", "k", "l", "m",
      "n", "o", "p", "q", "r", "s", "t", "u", "v", "w", "x", "y", "z">>
IsUpper(c) == \E i \in 1..26 : UpperChars[i] = c
IsLower(c) == \E i \in 1..26 : LowerChars[i] = c

\* str.lower() on one character
LowerChar(c) ==
    IF IsUpper(c) THEN LowerChars[CHOOSE i \in 1..26 : UpperChars[i] = c] ELSE c

Lower(s) == [i \in 1..Len(s) |-> LowerChar(s[i])]

\* str.startswith
StartsWith(s, p) == Len(s) >= Len(p) /\ SubSeq(s, 1, Len(p)) = p

\* the `in` operator on two strings
Contains(s, sub) ==
    \E i \in 1..(Len(s) - Len(sub) + 1) : SubSeq(s, i, i + Len(sub) - 1) = sub

\* s[n:]
DropPrefix(s, n) == SubSeq(s, n + 1, Len(s))

Reverse(s) == [i \in 1..Len(s) |-> s[Len(s) + 1 - i]]

HTTP == <<"h", "t", "t", "p">>

----------------------------------------------------------------------------
(* Dictionaries: functions from key names to values *)

EmptyDict == [k \in {} |-> None]
Put(d, k, v) == [x \in (DOMAIN d) \cup {k} |-> IF x = k THEN v ELSE d[x]]
Pop(d, k) == [x \in (DOMAIN d) \ {k} |-> d[x]]
Has(d, k) == k \in DOMAIN d
\* dict.update
Update(d, e) == [x \in (DOMAIN d) \cup (DOMAIN e) |-> IF x \in DOMAIN e THEN e[x] ELSE d[x]]

----------------------------------------------------------------------------
(* The model registry handed to parse_args: model name -> endpoint, call   *)
(* and option specs.  The models the tests name, and two more that cover   *)
(* the remaining shapes of the size options.                               *)

Square == <<"s", "q", "u", "a", "r", "e">>
Wide == <<"1", "6", ":", "9">>

OptionSpec(type, default) ==
    [type |-> type, default |-> default, allowed_sizes |-> {}, allow_dimensions |-> FALSE]
SizeSpec(type, default, allowed) ==
    [type |-> type, default |-> default, allowed_sizes |-> allowed, allow_dimensions |-> FALSE]

PromptOpt == "prompt" :> OptionSpec("prompt", None)
SeedOpt == "seed" :> OptionSpec("int", None)
WidthOpt == "width" :> OptionSpec("int", None)
HeightOpt == "height" :> OptionSpec("int", None)
SafetyOpt == "enable_safety_checker" :> OptionSpec("bool", Bool(FALSE))
StepsOpt(n) == "num_inference_steps" :> OptionSpec("int", Num(n))

MODEL_REGISTRY ==
    "schnell" :>
        [endpoint |-> "fal-ai/flux/schnell", call |-> "run",
         options |-> PromptOpt @@ SeedOpt @@ SafetyOpt @@ StepsOpt(4)
                     @@ "image_size" :> SizeSpec("i", None, {Square})]
    @@ "dev" :>
        [endpoint |-> "fal-ai/flux/dev", call |-> "subscribe",
         options |-> PromptOpt @@ SeedOpt @@ SafetyOpt @@ StepsOpt(28)
                     @@ WidthOpt @@ HeightOpt
                     @@ "image_size" :> SizeSpec("whi", None, {Square})]
    @@ "realism" :>
        [endpoint |-> "fal-ai/flux/realism", call |-> "subscribe",
         options |-> PromptOpt @@ "seed" :> OptionSpec("int", Num(5))
                     @@ WidthOpt @@ HeightOpt
                     @@ "image_size" :> SizeSpec("i", Str(Square), {Square})]
    @@ "nano-banana" :>
        [endpoint |-> "fal-ai/nano-banana", call |-> "subscribe",
         options |-> PromptOpt
                     @@ "image_size" :> SizeSpec("i", Str(Wide), {Wide})]
    @@ "krea-lora" :>
        [endpoint |-> "fal-ai/flux/krea-lora", call |-> "subscribe",
         options |-> PromptOpt @@ SeedOpt
                     @@ "loras" :> OptionSpec("append", None)
                     @@ "image_size" :> SizeSpec("i", None, {Square})]
    @@ "seedream-edit" :>
        [endpoint |-> "fal-ai/seedream/edit", call |-> "subscribe",
         options |-> PromptOpt
                     @@ "image_urls" :> OptionSpec("append", None)]
    @@ "kontext" :>
        [endpoint |-> "fal-ai/flux/kontext", call |-> "subscribe",
         options |-> PromptOpt @@ SeedOpt
                     @@ "image_url" :> OptionSpec("str", None)]
    @@ "nosize" :>
        [endpoint |-> "fal-ai/nosize", call |-> "run",
         options |-> PromptOpt @@ WidthOpt @@ HeightOpt]
    @@ "widthonly" :>
        [endpoint |-> "fal-ai/widthonly", call |-> "run",
         options |-> PromptOpt @@ WidthOpt
                     @@ "image_size" :> SizeSpec("whi", None, {Square})]

ModelNames == DOMAIN MODEL_REGISTRY

----------------------------------------------------------------------------
(* Text helpers of the option resolver *)

\* the blanks str.strip() removes, of the characters the model uses
IsSpace(c) == c \in {" ", "\n"}

RECURSIVE LStrip(_)
LStrip(s) == IF s # <<>> /\ IsSpace(Head(s)) THEN LStrip(Tail(s)) ELSE s
\* str.strip()
Strip(s) == Reverse(LStrip(Reverse(LStrip(s))))

\* str.split(sep) for a one-character separator
RECURSIVE Split(_, _)
Split(s, sep) ==
    IF \A i \in 1..Len(s) : s[i] # sep THEN <<s>>
    ELSE LET i == CHOOSE j \in 1..Len(s) : s[j] = sep /\ \A k \in 1..(j - 1) : s[k] # sep
         IN  <<SubSeq(s, 1, i - 1)>> \o Split(SubSeq(s, i + 1, Len(s)), sep)

DigitChars == <<"0", "1", "2", "3", "4", "5", "6", "7", "8", "9">>
IsDigit(c) == \E d \in 1..10 : DigitChars[d] = c
DigitVal(c) == (CHOOSE d \in 1..10 : DigitChars[d] = c) - 1

RECURSIVE DigitsValue(_)
DigitsValue(s) ==
    IF s = <<>> THEN 0 ELSE 10 * DigitsValue(SubSeq(s, 1, Len(s) - 1)) + DigitVal(s[Len(s)])

\* int() on text already stripped of blanks
ParseIntStripped(body) ==
    LET signed == body # <<>> /\ Head(body) \in {"-", "+"}
        digits == IF signed THEN Tail(body) ELSE body
        ok == digits # <<>> /\ \A i \in 1..Len(digits) : IsDigit(digits[i])
    IN  IF ~ok THEN [ok |-> FALSE, n |-> 0]
        ELSE [ok |-> TRUE,
              n |-> IF signed /\ Head(body) = "-" THEN 0 - DigitsValue(digits)
                    ELSE DigitsValue(digits)]

\* int(text): [ok, n]; surrounding blanks and one sign are accepted, as Python does
ParseInt(text) == ParseIntStripped(Strip(text))

\* str(n) for n >= 0
RECURSIVE FormatNat(_)
FormatNat(n) ==
    IF n < 10 THEN <<DigitChars[n + 1]>> ELSE Append(FormatNat(n \div 10), DigitChars[(n % 10) + 1])

SizeRejected == [ok |-> FALSE, value |-> <<>>]

\* the mutant of DimensionsOf: the check of line 174 is left out
FormatInt(n) == IF n < 0 THEN <<"-">> \o FormatNat(0 - n) ELSE FormatNat(n)
DimensionsOfAnySign(w, h) ==
    IF ~(w.ok /\ h.ok) THEN SizeRejected
    ELSE [ok |-> TRUE, value |-> FormatInt(w.n) \o <<"x">> \o FormatInt(h.n)]

\* lines 174-178, given the two integers of lines 168-169
DimensionsOf(w, h) ==
    IF ~(w.ok /\ h.ok) THEN SizeRejected
    ELSE IF w.n <= 0 \/ h.n <= 0 THEN SizeRejected
    ELSE [ok |-> TRUE, value |-> FormatNat(w.n) \o <<"x">> \o FormatNat(h.n)]

\* lines 165-178, given parts = lowered.split("x")
ParseDimensions(parts) ==
    IF Len(parts) = 2 THEN DimensionsOf(ParseInt(parts[1]), ParseInt(parts[2]))
    ELSE SizeRejected

\* lines 159-187, given candidate = value.strip(), not empty
ParseSizeLowered(lowered, normalized_allowed, allow_dimensions) ==
    IF normalized_allowed # {} /\ lowered \in normalized_allowed
    THEN [ok |-> TRUE, value |-> lowered]
    ELSE IF allow_dimensions THEN ParseDimensions(Split(lowered, "x"))
    ELSE SizeRejected

ParseSizeCandidate(candidate, allowed_sizes, allow_dimensions) ==
    IF candidate = <<>> THEN SizeRejected
    ELSE ParseSizeLowered(Lower(candidate), {Lower(size) : size \in allowed_sizes},
                          allow_dimensions)

\* _parse_image_size: [ok, value]; ok = FALSE is argparse.ArgumentTypeError
_parse_image_size(value, allowed_sizes, allow_dimensions) ==
    ParseSizeCandidate(Strip(value), allowed_sizes, allow_dimensions)

----------------------------------------------------------------------------
(* Prompt files *)

Cwd == <<"/", "w">>
PromptsDirName == <<"p", "r", "o", "m", "p", "t", "s">>
TxtSuffix == <<".", "t", "x", "t">>
Slash == <<"/">>

\* the components pathlib keeps of a path text: not the empty ones, not "."
Components(text) == SelectSeq(Split(text, "/"), LAMBDA c : c # <<>> /\ c # <<".">>)

RECURSIVE JoinWithSlash(_)
JoinWithSlash(parts) ==
    IF parts = <<>> THEN <<>>
    ELSE IF Len(parts) = 1 THEN parts[1]
    ELSE parts[1] \o Slash \o JoinWithSlash(Tail(parts))

\* the root pathlib keeps: "/", or "//" for exactly two slashes
Root(text) ==
    IF StartsWith(text, <<"/", "/">>) /\ ~StartsWith(text, <<"/", "/", "/">>) THEN <<"/", "/">>
    ELSE IF StartsWith(text, Slash) THEN Slash
    ELSE <<>>

RootedAt(root, body) == IF root \o body = <<>> THEN <<".">> ELSE root \o body

\* str(Path(text))
PathStr(text) == RootedAt(Root(text), JoinWithSlash(Components(text)))

\* the mutant of ExistingPath: the check of line 120 is left out
ExistingPathUnchecked(path, existing) == [ok |-> TRUE, path |-> path]

\* lines 120-122
ExistingPath(path, existing) == [ok |-> path \in existing, path |-> path]

\* lines 111-118: base / filespec or Path(filespec), as text
JoinedPath(filespec) ==
    PathStr(
        IF Contains(filespec, Slash)
        THEN IF StartsWith(filespec, Slash) THEN filespec
             ELSE Cwd \o Slash \o filespec
        ELSE IF Contains(filespec, <<".">>)
             THEN Cwd \o Slash \o PromptsDirName \o Slash \o filespec
             ELSE Cwd \o Slash \o PromptsDirName \o Slash \o filespec \o TxtSuffix)

\* _resolve_filespec: [ok, path]; ok = FALSE is FileNotFoundError
_resolve_filespec(filespec, existing) == ExistingPath(JoinedPath(filespec), existing)

----------------------------------------------------------------------------
(* External resources: loras and source images *)

SchemeSep == <<":", "/", "/">>

RECURSIVE RStripSlash(_)
\* str.rstrip("/")
RStripSlash(s) ==
    IF s # <<>> /\ s[Len(s)] = "/" THEN RStripSlash(SubSeq(s, 1, Len(s) - 1)) ELSE s

\* [part.strip() for part in item.split(",") if part.strip()]
StrippedNonEmpty(parts) ==
    SelectSeq([i \in 1..Len(parts) |-> Strip(parts[i])], LAMBDA part : part # <<>>)

NonEmptyParts(item) == StrippedNonEmpty(Split(item, ","))

RECURSIVE _split_option_values(_)
_split_option_values(raw_values) ==
    IF raw_values = <<>> THEN <<>>
    ELSE NonEmptyParts(Head(raw_values)) \o _split_option_values(Tail(raw_values))

\* float() given the text split at "."
ParseFloatParts(parts) ==
    LET okWhole == parts[1] # <<>> /\ \A i \in 1..Len(parts[1]) : IsDigit(parts[1][i])
    IN  IF Len(parts) = 1 /\ okWhole
        THEN [ok |-> TRUE, v |-> Float10(10 * DigitsValue(parts[1]))]
        ELSE IF Len(parts) = 2 /\ okWhole /\ Len(parts[2]) = 1 /\ IsDigit(parts[2][1])
             THEN [ok |-> TRUE,
                   v |-> Float10(10 * DigitsValue(parts[1]) + DigitVal(parts[2][1]))]
        ELSE [ok |-> FALSE, v |-> Float10(10)]

\* float(text) on the forms the model uses: digits, or digits "." digit
ParseFloat(text) == ParseFloatParts(Split(Strip(text), "."))

\* the index of the last ";" of value
LastSemicolon(value) ==
    CHOOSE j \in 1..Len(value) : value[j] = ";" /\ \A k \in (j + 1)..Len(value) : value[k] # ";"

SplitAt(value, i) == <<SubSeq(value, 1, i - 1), SubSeq(value, i + 1, Len(value))>>

\* value.rsplit(";", 1)
RSplitSemicolon(value) == SplitAt(value, LastSemicolon(value))

\* lines 314-320
FinalValue(value, base, default_suffix) ==
    IF Contains(value, SchemeSep) THEN value
    ELSE base \o (IF Contains(value, <<".">>) THEN value ELSE value \o default_suffix)

\* lines 308-313, given weight = float(maybe_weight) or its ValueError
WeightedValue(weight, maybe_path, item, base, default_suffix) ==
    IF weight.ok THEN <<FinalValue(maybe_path, base, default_suffix), weight.v>>
    ELSE <<FinalValue(item, base, default_suffix), Float10(10)>>

\* lines 307-313
SplitWeight(split, item, base, default_suffix) ==
    WeightedValue(ParseFloat(split[2]), split[1], item, base, default_suffix)

\* the body of the for loop of _normalize_external_resources for one item:
\* <<final_value, weight>>
NormalizeOne(item, base, default_suffix, return_with_weights) ==
    IF return_with_weights /\ Contains(item, <<";">>)
    THEN SplitWeight(RSplitSemicolon(item), item, base, default_suffix)
    ELSE <<FinalValue(item, base, default_suffix), Float10(10)>>

\* lines 302-325, given base and the items of _split_option_values
NormalizeAll(items, base, default_suffix, return_with_weights) ==
    [i \in 1..Len(items) |->
        IF return_with_weights
        THEN NormalizeOne(items[i], base, default_suffix, TRUE)
        ELSE NormalizeOne(items[i], base, default_suffix, FALSE)[1]]

_normalize_external_resources(raw_values, base_url, default_suffix, return_with_weights) ==
    NormalizeAll(_split_option_values(raw_values), RStripSlash(base_url) \o Slash,
                 default_suffix, return_with_weights)

SafetensorsSuffix == <<".", "s", "t">>
JpgSuffix == <<".", "j", "p", "g">>

\* a lora entry {"path": ..., "scale": ...}
Lora(path, scale) == [t |-> "lora", path |-> path, scale |-> scale]

\* lines 343-346
AsLoras(entries) == [i \in 1..Len(entries) |-> Lora(entries[i][1], entries[i][2])]

_normalize_loras(raw_values, environ) ==
    AsLoras(_normalize_external_resources(
                raw_values, environ.SAFETENSORS_URL, SafetensorsSuffix, TRUE))

AsStrings(urls) == [i \in 1..Len(urls) |-> Str(urls[i])]

_normalize_image_urls(raw_values, environ) ==
    AsStrings(_normalize_external_resources(
                  raw_values, environ.SOURCE_IMAGE_URL, JpgSuffix, FALSE))

_normalize_image_url(raw_value, environ) == _normalize_image_urls(<<raw_value>>, environ)[1]

----------------------------------------------------------------------------
(* parse_args.  A command line is [model, opts, common]: the model name,   *)
(* the model options supplied (option name -> value, already converted by  *)
(* the option's argparse type, image_size still raw text) and the common   *)
(* options [add_prompt_metadata, preview_assets, as_jpg, jpg_options,      *)
(* meta].                                                                  *)

_JPG_OPTION_DEFAULTS ==
    [quality |-> Num(75), subsampling |-> Num(2),
     progressive |-> Bool(TRUE), optimize |-> Bool(TRUE)]

Failure(kind, why) == [ok |-> FALSE, kind |-> kind, why |-> why, value |-> None]
Success(value) == [ok |-> TRUE, kind |-> "none", why |-> "", value |-> value]

\* the steps of _parse_jpg_options on one entry [eq, key, value]: the
\* options after it, or a failure
JpgEntryResult(options, entry) ==
    IF ~entry.eq THEN Failure("SystemExit", "jpg options must be key=value pairs")
    ELSE IF entry.key \notin DOMAIN _JPG_OPTION_DEFAULTS
         THEN Failure("SystemExit", "unknown jpg option")
    ELSE IF _JPG_OPTION_DEFAULTS[entry.key].t = "bool"
         THEN IF entry.value \in {"true", "1", "yes"}
              THEN Success([options EXCEPT ![entry.key] = Bool(TRUE)])
              ELSE IF entry.value \in {"false", "0", "no"}
                   THEN Success([options EXCEPT ![entry.key] = Bool(FALSE)])
                   ELSE Failure("SystemExit", "jpg option expects true/false")
    ELSE IF entry.value \in {"90"} THEN Success([options EXCEPT ![entry.key] = Num(90)])
    ELSE Failure("SystemExit", "jpg option expects an integer")

RECURSIVE JpgLoop(_, _)
JpgLoop(options, entries) ==
    IF entries = <<>> THEN Success(options)
    ELSE LET r == JpgEntryResult(options, Head(entries))
         IN  IF r.ok THEN JpgLoop(r.value, Tail(entries)) ELSE r

\* raw_value: None, or the list of the entries between the commas
_parse_jpg_options(raw_value) ==
    IF raw_value = None THEN Success(_JPG_OPTION_DEFAULTS)
    ELSE JpgLoop(_JPG_OPTION_DEFAULTS, raw_value.items)

\* the namespace argparse returns: every declared option, with the supplied
\* value, or the argparse default (None, or the declared default of a
\* boolean option)
Namespace(argv, options, declared, size) ==
    [k \in declared |->
        IF Has(argv.opts, k)
        THEN IF k = "image_size" THEN Str(size.value) ELSE argv.opts[k]
        ELSE IF k # "file" /\ options[k].type = "bool" THEN options[k].default
        ELSE None]

\* argparse's checks, given the options the model parser was built with
\* and, for a supplied image_size, what its type function returned
ArgparseChecks(argv, options, hasPrompt, declared, size) ==
    IF \E k \in DOMAIN argv.opts : k \notin declared
    THEN Failure("SystemExit", "unrecognized arguments")
    ELSE IF hasPrompt /\ Has(argv.opts, "prompt") /\ Has(argv.opts, "file")
    THEN Failure("SystemExit", "-p not allowed with -f")
    ELSE IF hasPrompt /\ ~Has(argv.opts, "prompt") /\ ~Has(argv.opts, "file")
    THEN Failure("SystemExit", "one of -p -f is required")
    ELSE IF Has(argv.opts, "image_size") /\ ~size.ok
    THEN Failure("SystemExit", "argument image_size: invalid value")
    ELSE Success(Namespace(argv, options, declared, size))

HasPromptOption(options) == Has(options, "prompt") /\ options["prompt"].type = "prompt"

ModelParser(argv, options) ==
    ArgparseChecks(argv, options, HasPromptOption(options),
                   (DOMAIN options) \cup (IF HasPromptOption(options) THEN {"file"} ELSE {}),
                   IF Has(argv.opts, "image_size") /\ Has(options, "image_size")
                   THEN _parse_image_size(argv.opts["image_size"].s,
                                          options["image_size"].allowed_sizes,
                                          options["image_size"].allow_dimensions)
                   ELSE SizeRejected)

\* parser.parse_args(argv): argparse's own checks and type conversions
ArgparseStage(argv, registry) ==
    IF argv.model \notin DOMAIN registry
    THEN Failure("SystemExit", "invalid choice of model")
    ELSE ModelParser(argv, registry[argv.model].options)

\* getattr(ns, name, None)
GetAttr(ns, name) == IF Has(ns, name) THEN ns[name] ELSE None

\* the mutant of SeedDefaults: lines 477-481 are left out
SeedDefaultsNone(option_specs) == EmptyDict

\* lines 477-481: the declared defaults, the prompt's left out
SeedDefaults(option_specs) ==
    [k \in {key \in DOMAIN option_specs :
               option_specs[key].default # None /\ option_specs[key].type # "prompt"}
        |-> option_specs[k].default]

\* the mutant of PromptFromFile: the 'file' key of line 492 is left out
PromptFromFileNoKey(params, resolved, files) ==
    IF ~resolved.ok THEN Failure("FileNotFoundError", "prompt file")
    ELSE Success(Put(params, "prompt", Str(files[resolved.path])))

\* lines 491-493, given what _resolve_filespec returned or raised
PromptFromFile(params, resolved, files) ==
    IF ~resolved.ok THEN Failure("FileNotFoundError", "prompt file")
    ELSE Success(Put(Put(params, "file", Str(resolved.path)),
                     "prompt", Str(files[resolved.path])))

\* lines 485-497: [ok, params]; ok = FALSE is the FileNotFoundError of
\* _resolve_filespec
ResolvePrompt(params, ns, option_specs, files) ==
    IF ~HasPromptOption(option_specs) THEN Success(params)
    ELSE IF GetAttr(ns, "prompt") # None
    THEN Success(Pop(Put(params, "prompt", ns["prompt"]), "file"))
    ELSE IF GetAttr(ns, "file") # None
    THEN PromptFromFile(params, _resolve_filespec(ns["file"].s, DOMAIN files), files)
    ELSE IF option_specs["prompt"].default # None
    THEN Success(Put(params, "prompt", option_specs["prompt"].default))
    ELSE Success(params)

Dims(width, height) == [t |-> "dims", width |-> width, height |-> height]

\* the mutant of WidthHeight: the pair check of line 509 is left out
WidthHeightNoPairCheck(params, ns, option_specs) ==
    LET allows_dimensions ==
            Has(option_specs, "image_size") /\ option_specs["image_size"].type = "whi"
        allows_width == Has(option_specs, "width")
        allows_height == Has(option_specs, "height")
        width == IF allows_width THEN GetAttr(ns, "width") ELSE None
        height == IF allows_height THEN GetAttr(ns, "height") ELSE None
    IN  IF (allows_width \/ allows_height) /\ width # None /\ height # None
        THEN IF ~allows_dimensions
             THEN Failure("SystemExit", "--width/--height need explicit dimensions")
             ELSE Success([params |-> Put(params, "image_size", Dims(width, height)),
                           used_dimensions |-> TRUE])
        ELSE Success([params |-> params, used_dimensions |-> FALSE])

\* the mutant of WidthHeight: the allows_dimensions check of line 512 is
\* left out
WidthHeightNoDimensionCheck(params, ns, option_specs) ==
    LET allows_width == Has(option_specs, "width")
        allows_height == Has(option_specs, "height")
        width == IF allows_width THEN GetAttr(ns, "width") ELSE None
        height == IF allows_height THEN GetAttr(ns, "height") ELSE None
    IN  IF (allows_width \/ allows_height) /\ ((width # None) # (height # None))
        THEN Failure("SystemExit", "--width and --height must be provided together")
        ELSE IF (allows_width \/ allows_height) /\ width # None /\ height # None
        THEN Success([params |-> Put(params, "image_size", Dims(width, height)),
                      used_dimensions |-> TRUE])
        ELSE Success([params |-> params, used_dimensions |-> FALSE])

\* lines 499-517: [ok, [params, used_dimensions]]
WidthHeight(params, ns, option_specs) ==
    LET allows_dimensions ==
            Has(option_specs, "image_size") /\ option_specs["image_size"].type = "whi"
        allows_width == Has(option_specs, "width")
        allows_height == Has(option_specs, "height")
        width == IF allows_width THEN GetAttr(ns, "width") ELSE None
        height == IF allows_height THEN GetAttr(ns, "height") ELSE None
    IN  IF (allows_width \/ allows_height) /\ ((width # None) # (height # None))
        THEN Failure("SystemExit", "--width and --height must be provided together")
        ELSE IF (allows_width \/ allows_height) /\ width # None /\ height # None
        THEN IF ~allows_dimensions
             THEN Failure("SystemExit", "--width/--height need explicit dimensions")
             ELSE Success([params |-> Put(params, "image_size", Dims(width, height)),
                           used_dimensions |-> TRUE])
        ELSE Success([params |-> params, used_dimensions |-> FALSE])

\* the mutant of SizePreset: a supplied preset replaces the width/height pair
SizePresetOverrides(params, ns, option_specs, used_dimensions) ==
    LET image_size_value ==
            IF Has(option_specs, "image_size") THEN GetAttr(ns, "image_size") ELSE None
    IN  IF image_size_value # None
        THEN Put(params, "image_size", image_size_value) ELSE params

\* lines 519-521
SizePreset(params, ns, option_specs, used_dimensions) ==
    LET image_size_value ==
            IF Has(option_specs, "image_size") THEN GetAttr(ns, "image_size") ELSE None
    IN  IF image_size_value # None /\ ~used_dimensions
        THEN Put(params, "image_size", image_size_value) ELSE params

\* a list option was given and is not empty
GivenList(value) == value # None /\ value.items # <<>>

\* lines 523-526
WithLoras(params, loras_values, option_specs, environ) ==
    IF Has(option_specs, "loras") /\ GivenList(loras_values)
    THEN Put(params, "loras", List(_normalize_loras(loras_values.items, environ)))
    ELSE params

\* lines 528-531
WithImageUrls(params, image_urls, option_specs, environ) ==
    IF Has(option_specs, "image_urls") /\ GivenList(image_urls)
    THEN Put(params, "image_urls", List(_normalize_image_urls(image_urls.items, environ)))
    ELSE params

\* lines 533-536
WithImageUrl(params, image_url, option_specs, environ) ==
    IF Has(option_specs, "image_url") /\ image_url # None /\ image_url.s # <<>>
    THEN Put(params, "image_url", _normalize_image_url(image_url.s, environ))
    ELSE params

\* lines 523-536
Resources(params, ns, option_specs, environ) ==
    WithImageUrl(
        WithImageUrls(
            WithLoras(params, GetAttr(ns, "loras"), option_specs, environ),
            GetAttr(ns, "image_urls"), option_specs, environ),
        GetAttr(ns, "image_url"), option_specs, environ)

SpecialKeys == {"prompt", "image_size", "width", "height", "loras", "image_urls", "image_url"}

\* lines 538-557: the remaining options, set from the namespace
OtherOptions(params, ns, option_specs) ==
    LET keys == (DOMAIN option_specs) \ SpecialKeys
        set == {k \in keys : option_specs[k].type = "bool" \/ GetAttr(ns, k) # None}
    IN  [k \in (DOMAIN params) \cup set |-> IF k \in set THEN ns[k] ELSE params[k]]

\* the mutant of Seed: the supplied seed of lines 562-563 is passed over
SeedNeverSupplied(params, ns, option_specs, rand) ==
    IF ~Has(option_specs, "seed") THEN params
    ELSE IF option_specs["seed"].default = None THEN Put(params, "seed", Num(rand))
    ELSE Put(params, "seed", option_specs["seed"].default)

\* lines 559-567; rand is what secrets.randbits(32) returns
Seed(params, ns, option_specs, rand) ==
    IF ~Has(option_specs, "seed") THEN params
    ELSE IF GetAttr(ns, "seed") # None THEN Put(params, "seed", ns["seed"])
    ELSE IF option_specs["seed"].default = None THEN Put(params, "seed", Num(rand))
    ELSE Put(params, "seed", option_specs["seed"].default)

\* lines 569-570
AspectRatioAlias(params, model_name) ==
    IF model_name = "nano-banana" /\ Has(params, "image_size")
    THEN Put(Pop(params, "image_size"), "aspect_ratio", params["image_size"])
    ELSE params

\* the mutant of ExtraMetadata: text that is not JSON is passed over
ExtraMetadataLenient(meta) ==
    IF meta = None \/ ~meta.valid THEN Success(EmptyDict) ELSE Success(meta.value)

\* lines 574-581: meta is None, or [valid, value] for the text given to
\* json.loads: valid = FALSE is json.JSONDecodeError
ExtraMetadata(meta) ==
    IF meta = None THEN Success(EmptyDict)
    ELSE IF ~meta.valid THEN Failure("SystemExit", "invalid JSON in --meta")
    ELSE Success(meta.value)

\* the dataclass ParsedOptions; flags is [add_prompt_metadata, preview_assets,
\* as_jpg]
ParsedOptions(model, endpoint, call, params, flags, jpg_options, extra_metadata) ==
    [model |-> model, endpoint |-> endpoint, call |-> call, params |-> params,
     add_prompt_metadata |-> flags.add_prompt_metadata,
     preview_assets |-> flags.preview_assets, as_jpg |-> flags.as_jpg,
     jpg_options |-> jpg_options, extra_metadata |-> extra_metadata]

\* lines 572-593, given the params of line 570: the jpg options, the extra
\* metadata and the ParsedOptions returned
FinishParse(params, jpg_options, extra_metadata, argv, model_def) ==
    IF ~jpg_options.ok THEN jpg_options
    ELSE IF ~extra_metadata.ok THEN extra_metadata
    ELSE Success(ParsedOptions(argv.model, model_def.endpoint, model_def.call, params,
                               argv.common, jpg_options.value, extra_metadata.value))

\* lines 519-570, given what lines 499-517 left
AfterDimensions(dims, ns, option_specs, argv, model_def, environ, rand) ==
    IF ~dims.ok THEN dims
    ELSE FinishParse(
             AspectRatioAlias(
                 Seed(OtherOptions(
                          Resources(SizePreset(dims.value.params, ns, option_specs,
                                               dims.value.used_dimensions),
                                    ns, option_specs, environ),
                          ns, option_specs),
                      ns, option_specs, rand),
                 argv.model),
             _parse_jpg_options(argv.common.jpg_options),
             ExtraMetadata(argv.common.meta), argv, model_def)

\* lines 499-517, given what lines 485-497 left
AfterPrompt(prompt, ns, option_specs, argv, model_def, environ, rand) ==
    IF ~prompt.ok THEN prompt
    ELSE AfterDimensions(WidthHeight(prompt.value, ns, option_specs),
                         ns, option_specs, argv, model_def, environ, rand)

\* lines 457-497, given the namespace of line 455
AfterArgparse(parsedNs, argv, model_def, environ, files, rand) ==
    IF ~parsedNs.ok THEN parsedNs
    ELSE AfterPrompt(ResolvePrompt(SeedDefaults(model_def.options), parsedNs.value,
                                   model_def.options, files),
                     parsedNs.value, model_def.options, argv, model_def, environ, rand)

\* parse_args(argv, registry=registry), in the order of its statements
parse_args(argv, registry, environ, files, rand) ==
    AfterArgparse(ArgparseStage(argv, registry), argv,
                  IF argv.model \in DOMAIN registry THEN registry[argv.model] ELSE None,
                  environ, files, rand)

----------------------------------------------------------------------------
(* Response payloads: nested mappings and sequences over leaves.  A mapping *)
(* is [t |-> "map", items |-> <<[key, val], ...>>] in insertion order, a    *)
(* sequence is [t |-> "seq", items |-> <<val, ...>>].                       *)

IsMapping(v) == v.t = "map"
\* isinstance(v, Sequence) and not isinstance(v, (str, bytes, bytearray))
IsPlainSequence(v) == v.t = "seq"

\* list(current.values())
Values(m) == [i \in 1..Len(m.items) |-> m.items[i].val]

\* the mutant of StackAfterPop: children pushed without reversed()
StackAfterPopUnreversed(stack) ==
    LET current == stack[Len(stack)]
        rest == SubSeq(stack, 1, Len(stack) - 1)
    IN  IF IsMapping(current) THEN rest \o Values(current)
        ELSE IF IsPlainSequence(current) THEN rest \o current.items
        ELSE rest

\* one turn of the while loop of _iter_payload: the stack after stack.pop()
\* and the pushes of the branch taken
StackAfterPop(stack) ==
    LET current == stack[Len(stack)]
        rest == SubSeq(stack, 1, Len(stack) - 1)
    IN  IF IsMapping(current) THEN rest \o Reverse(Values(current))
        ELSE IF IsPlainSequence(current) THEN rest \o Reverse(current.items)
        ELSE rest

\* what that turn yields: the popped value when it is neither mapping nor
\* sequence, nothing otherwise
YieldOfPop(stack) ==
    LET current == stack[Len(stack)]
    IN  IF IsMapping(current) \/ IsPlainSequence(current) THEN <<>>
        ELSE <<current>>

RECURSIVE IterLoop(_)
IterLoop(stack) ==
    IF stack = <<>> THEN <<>>
    ELSE YieldOfPop(stack) \o IterLoop(StackAfterPop(stack))

\* _iter_payload(value): the values yielded, in order
_iter_payload(value) == IterLoop(<<value>>)

\* the test of _extract_urls on one candidate
IsUrlCandidate(c) == c.t = "str" /\ StartsWith(Lower(c.s), HTTP)

RECURSIVE CollectUrls(_, _)
CollectUrls(candidates, collected) ==
    IF candidates = <<>> THEN collected
    ELSE LET c == Head(candidates)
             seen == {collected[i] : i \in 1..Len(collected)}
         IN  CollectUrls(Tail(candidates),
                         IF IsUrlCandidate(c) /\ c.s \notin seen
                         THEN Append(collected, c.s) ELSE collected)

_extract_urls(p) == CollectUrls(_iter_payload(p), <<>>)

----------------------------------------------------------------------------
(* The payloads the extractor is run on: every tree of at most MaxNodes    *)
(* nodes over the leaves below.                                            *)

MaxNodes == 4

UrlA == <<"h", "t", "t", "p", ":", "/", "/", "x", "/", "a", ".", "p", "n", "g">>
UrlB == <<"H", "T", "T", "P", ":", "/", "/", "x", "/", "b", ".", "p", "n", "g">>
NotUrl == <<"f", "t", "p", ":", "/", "/", "x">>

Leaves == {Str(UrlA), Str(UrlB), Str(NotUrl), Bytes(UrlA), Num(1)}

KeyName(i) == <<"k", i>>

AsMapItems(children) ==
    [i \in 1..Len(children) |-> [key |-> KeyName(i), val |-> children[i]]]

\* Forests(n, treesOf): the sequences of trees of n nodes in total, where
\* treesOf[k] is the set of trees of exactly k nodes
RECURSIVE Forests(_, _)
Forests(n, treesOf) ==
    IF n = 0 THEN {<<>>}
    ELSE UNION {{<<tr>> \o f : tr \in treesOf[k], f \in Forests(n - k, treesOf)}
                : k \in 1..n}

RECURSIVE TreesUpTo(_)
TreesUpTo(n) ==
    IF n = 0 THEN [k \in {} |-> {}]
    ELSE LET smaller == TreesUpTo(n - 1)
             kids == Forests(n - 1, smaller)
             here == (IF n = 1 THEN Leaves ELSE {})
                     \cup {List(f) : f \in kids}
                     \cup {Map(AsMapItems(f)) : f \in kids}
         IN  [k \in 1..n |-> IF k = n THEN here ELSE smaller[k]]

Payloads == UNION {TreesUpTo(MaxNodes)[k] : k \in 1..MaxNodes}

----------------------------------------------------------------------------
(* The extractor on its own *)

NoParse ==
    /\ sys_argv = None
    /\ os_environ = None
    /\ prompt_files = None
    /\ parsed = None

NoExtract ==
    /\ payload = None
    /\ extracted = <<>>

NoRun ==
    /\ entry_point = None
    /\ remote_calls = 0
    /\ timestamp = None
    /\ output_dir = None
    /\ output_dir_at_start = None
    /\ downloads = 0
    /\ written = <<>>
    /\ exif_calls = <<>>
    /\ stdout = <<>>
    /\ result = None

NoCall ==
    /\ call_args = None
    /\ call_result = None

NoEdit ==
    /\ styles_dir = None
    /\ prompts_dir = None
    /\ request = None
    /\ response = None
    /\ file_system = None

InitExtract ==
    /\ pc = "extract"
    /\ payload \in Payloads
    /\ extracted = <<>>
    /\ NoParse
    /\ NoRun
    /\ NoCall
    /\ NoEdit

ExtractUrls ==
    /\ pc = "extract"
    /\ extracted' = _extract_urls(payload)
    /\ pc' = "extracted"
    /\ UNCHANGED <<payload, parseVars, runVars, callVars, editVars>>

NextExtract == ExtractUrls

SpecExtract == InitExtract /\ [][NextExtract]_vars

----------------------------------------------------------------------------
(* The command lines parse_args is run on *)

PromptHi == <<"H", "i">>
CatsText == <<"t", "w", "o", " ", "c", "a", "t", "s">>
CatsSpec == <<"c", "a", "t", "s">>
NopeSpec == <<"n", "o", "p", "e">>
CatsPath == Cwd \o Slash \o PromptsDirName \o Slash \o CatsSpec \o TxtSuffix
SquareTyped == <<"S", "q", "u", "a", "r", "e">>
BadSize == <<"b", "a", "d">>

PromptFiles == CatsPath :> CatsText

SourceBase == <<"h", "t", "t", "p", ":", "/", "/", "s", "/", "k", "/">>
SafetensorsBase == <<"h", "t", "t", "p", ":", "/", "/", "s", "/", "j", "/">>

Environments ==
    {[SOURCE_IMAGE_URL |-> SourceBase, SAFETENSORS_URL |-> SafetensorsBase]}

\* what secrets.randbits(32) may return, as far as the model's integers go
RandomSeeds == {0, 2147483647}

\* the option values a command line may carry; None: the option is not given
PromptChoices ==
    {[prompt |-> Str(PromptHi), file |-> None],
     [prompt |-> None, file |-> Str(CatsSpec)],
     [prompt |-> None, file |-> Str(NopeSpec)],
     [prompt |-> None, file |-> None],
     [prompt |-> Str(PromptHi), file |-> Str(CatsSpec)]}
SizeChoices == {None, Str(SquareTyped), Str(BadSize)}
DimensionChoices == {None, Num(1), Num(2)}
ResourceChoices ==
    {[loras |-> None, image_urls |-> None, image_url |-> None],
     [loras |-> List(<<<<"a", ",", "b">>, <<"c", ";", "2">>>>),
      image_urls |-> None, image_url |-> None],
     [loras |-> None, image_urls |-> List(<<<<"a", ",", "b", ".", "p">>>>),
      image_url |-> None],
     [loras |-> None, image_urls |-> None, image_url |-> Str(<<"a">>)]}
OtherChoices ==
    {[seed |-> None, enable_safety_checker |-> None],
     [seed |-> Num(7), enable_safety_checker |-> None],
     [seed |-> None, enable_safety_checker |-> Bool(TRUE)]}

CommonDefaults ==
    [add_prompt_metadata |-> FALSE, preview_assets |-> TRUE, as_jpg |-> TRUE,
     jpg_options |-> None, meta |-> None]
CommonChoices ==
    {CommonDefaults,
     [CommonDefaults EXCEPT !.add_prompt_metadata = TRUE,
                            !.meta = [valid |-> TRUE,
                                      value |-> "prompt_name" :> Str(CatsSpec)]],
     [CommonDefaults EXCEPT !.meta = [valid |-> FALSE, value |-> EmptyDict]],
     [CommonDefaults EXCEPT !.as_jpg = FALSE, !.preview_assets = FALSE,
                            !.jpg_options =
                                List(<<[eq |-> TRUE, key |-> "quality", value |-> "90"],
                                       [eq |-> TRUE, key |-> "optimize", value |-> "no"]>>)],
     [CommonDefaults EXCEPT !.jpg_options =
                                List(<<[eq |-> FALSE, key |-> "quality", value |-> ""]>>)]}

\* the options of a record that are given, as a dictionary
Given(rec) == [k \in {x \in DOMAIN rec : rec[x] # None} |-> rec[k]]

\* the first of each: a prompt given in line, no resource, no seed, the
\* common defaults
PlainPrompt == [prompt |-> Str(PromptHi), file |-> None]
NoResource == [loras |-> None, image_urls |-> None, image_url |-> None]
NoOther == [seed |-> None, enable_safety_checker |-> None]

\* the options besides the size options: all plain, or one of the four
\* groups at any of its choices
RestChoices ==
    {[p |-> p, r |-> NoResource, o |-> NoOther, c |-> CommonDefaults] : p \in PromptChoices}
    \cup {[p |-> PlainPrompt, r |-> r, o |-> NoOther, c |-> CommonDefaults] : r \in ResourceChoices}
    \cup {[p |-> PlainPrompt, r |-> NoResource, o |-> o, c |-> CommonDefaults] : o \in OtherChoices}
    \cup {[p |-> PlainPrompt, r |-> NoResource, o |-> NoOther, c |-> c] : c \in CommonChoices}

\* every model name, known or not, with every choice of preset, width and
\* height, and the rest as above
CommandLines ==
    {[model |-> m,
      opts |-> Given(x.p @@ x.r @@ x.o @@ [image_size |-> i, width |-> w, height |-> h]),
      common |-> x.c] :
        m \in ModelNames \cup {"bogus"}, i \in SizeChoices,
        w \in DimensionChoices, h \in DimensionChoices, x \in RestChoices}

----------------------------------------------------------------------------
(* parse_args on its own *)

InitParse ==
    /\ pc = "parse"
    /\ sys_argv \in CommandLines
    /\ os_environ \in Environments
    /\ prompt_files = PromptFiles
    /\ parsed = None
    /\ NoExtract
    /\ NoRun
    /\ NoCall
    /\ NoEdit

ParseArgs ==
    /\ pc = "parse"
    /\ \E rand \in RandomSeeds :
           parsed' = parse_args(sys_argv, MODEL_REGISTRY, os_environ, prompt_files, rand)
    /\ pc' = "parse_done"
    /\ UNCHANGED <<sys_argv, os_environ, prompt_files, extractVars, runVars, callVars, editVars>>

NextParse == ParseArgs

SpecParse == InitParse /\ [][NextParse]_vars

\* what the command line supplies
Supplied(name) == Has(sys_argv.opts, name)
KnownModel == sys_argv.model \in DOMAIN MODEL_REGISTRY
Declares(name) == KnownModel /\ Has(MODEL_REGISTRY[sys_argv.model].options, name)
PermitsDimensions ==
    Declares("image_size") /\ MODEL_REGISTRY[sys_argv.model].options["image_size"].type = "whi"

\* C8: for a model that declares width and height, a command line with
\* exactly one of the two makes parse_args fail.
C8_OneDimensionFails ==
    (pc = "parse_done" /\ Declares("width") /\ Declares("height")
        /\ (Supplied("width") # Supplied("height")))
    => ~parsed.ok

\* a command line for dev, right in everything but its lone width, that the
\* pair check turned down
C8_Witness ==
    /\ pc = "parse_done"
    /\ sys_argv.model = "dev"
    /\ Supplied("width") /\ ~Supplied("height")
    /\ ~parsed.ok
    /\ parsed.why = "--width and --height must be provided together"

C10_DimensionsNeedPermission ==
    (pc = "parse_done" /\ KnownModel /\ ~PermitsDimensions)
    => /\ (Supplied("width") /\ Supplied("height")) => ~parsed.ok
       /\ parsed.ok => \A k \in DOMAIN parsed.value.params :
                           parsed.value.params[k].t # "dims"

\* realism declares width and height and a preset-only size option: the
\* pair is turned down by the check of line 512
C10_Witness ==
    /\ pc = "parse_done"
    /\ sys_argv.model = "realism"
    /\ Supplied("width") /\ Supplied("height")
    /\ ~parsed.ok
    /\ parsed.why = "--width/--height need explicit dimensions"

----------------------------------------------------------------------------
(* Document order, stated without a stack *)

RECURSIVE DocOrderLeaves(_)
DocOrderLeaves(v) ==
    IF IsMapping(v) \/ IsPlainSequence(v)
    THEN LET kids == IF IsMapping(v) THEN Values(v) ELSE v.items
             F[i \in 0..Len(kids)] ==
                 IF i = 0 THEN <<>> ELSE F[i - 1] \o DocOrderLeaves(kids[i])
         IN  F[Len(kids)]
    ELSE <<v>>

\* the positions of the leaves that are strings starting with "http" in any
\* letter case, and are the first occurrence of their text
FirstHttpStrings(v) ==
    LET ls == DocOrderLeaves(v)
        isHttp(i) == ls[i].t = "str" /\ Len(ls[i].s) >= 4
                     /\ LowerChar(ls[i].s[1]) = "h" /\ LowerChar(ls[i].s[2]) = "t"
                     /\ LowerChar(ls[i].s[3]) = "t" /\ LowerChar(ls[i].s[4]) = "p"
        first(i) == \A j \in 1..(i - 1) : ls[j] # ls[i]
        keep == {i \in 1..Len(ls) : isHttp(i) /\ first(i)}
        G[i \in 0..Len(ls)] ==
            IF i = 0 THEN <<>>
            ELSE IF i \in keep THEN Append(G[i - 1], ls[i].s) ELSE G[i - 1]
    IN  G[Len(ls)]

\* C3: _extract_urls returns exactly the string leaves that start with
\* "http" in any letter case, each once, in document order of first
\* occurrence; string and bytes leaves are never split into characters.
C3_ExtractUrlsDocumentOrder ==
    pc = "extracted" => extracted = FirstHttpStrings(payload)

\* a sequence nested in a mapping, out of which two URLs came in document
\* order
C3_Witness ==
    /\ pc = "extracted"
    /\ payload = Map(AsMapItems(<<List(<<Str(UrlB)>>), Str(UrlA)>>))
    /\ extracted = <<UrlB, UrlA>>

----------------------------------------------------------------------------
(* The asset namer: imagegen.py, lines 29-42 and 200-246 *)

\* max_chars of line 98 and line 103
MaxChars == 50

IsAlnum(c) == IsUpper(c) \/ IsLower(c) \/ IsDigit(c)

\* str.rfind(c): the 0-based index of the last c, or -1
RFind(s, c) ==
    IF \E i \in 1..Len(s) : s[i] = c
    THEN (CHOOSE i \in 1..Len(s) : s[i] = c /\ \A k \in (i + 1)..Len(s) : s[k] # c) - 1
    ELSE -1

\* lines 36-42, given truncated = text[:max_chars] and last_space
CutAtLastSpace(truncated, last_space) ==
    IF last_space > 0 THEN SubSeq(truncated, 1, last_space) ELSE truncated

_truncate_to_word_boundary(text, max_chars) ==
    IF Len(text) <= max_chars THEN text
    ELSE CutAtLastSpace(SubSeq(text, 1, max_chars), RFind(SubSeq(text, 1, max_chars), " "))

RECURSIVE LStripDashes(_)
LStripDashes(s) == IF s # <<>> /\ Head(s) = "-" THEN LStripDashes(Tail(s)) ELSE s
\* str.strip("-")
StripDashes(s) == Reverse(LStripDashes(Reverse(LStripDashes(s))))

ImageToken == <<"i", "m", "a", "g", "e">>
\* sanitized or "image"
OrImage(sanitized) == IF sanitized = <<>> THEN ImageToken ELSE sanitized

\* line 208
Filtered(component) ==
    [i \in 1..Len(component) |->
        IF IsAlnum(component[i]) THEN LowerChar(component[i]) ELSE "-"]

_sanitize_component(component) == OrImage(StripDashes(Filtered(Strip(component))))

\* PurePath.name: what follows the last "/"
PathName(path) == SubSeq(path, RFind(path, "/") + 2, Len(path))

\* PurePath.stem and PurePath.suffix, given dot = name.rfind(".")
StemOf(name, dot) == IF 0 < dot /\ dot < Len(name) - 1 THEN SubSeq(name, 1, dot) ELSE name
SuffixOf(name, dot) ==
    IF 0 < dot /\ dot < Len(name) - 1 THEN SubSeq(name, dot + 1, Len(name)) ELSE <<>>
PathStem(name) == StemOf(name, RFind(name, "."))
PathSuffix(name) == SuffixOf(name, RFind(name, "."))

\* None, or the stem as a str
_base_name_from_params(parameters) ==
    IF Has(parameters, "file") /\ parameters["file"].t = "str"
    THEN Str(PathStem(PathName(parameters["file"].s)))
    ELSE None

\* lines 84-88
PromptText(arguments) ==
    IF Has(arguments, "prompt") /\ arguments["prompt"].t = "str"
    THEN Strip(arguments["prompt"].s)
    ELSE <<>>

\* lines 96-98
NameAndText(sanitized_name, truncated_text) ==
    IF truncated_text # <<>> THEN sanitized_name \o <<"-">> \o truncated_text
    ELSE sanitized_name

\* f"{parsed.model}": the characters of a model name
ModelChars ==
    "schnell" :> <<"s", "c", "h", "n", "e", "l", "l">>
    @@ "dev" :> <<"d", "e", "v">>
    @@ "realism" :> <<"r", "e", "a", "l", "i", "s", "m">>
    @@ "nano-banana" :> <<"n", "a", "n", "o", "-", "b", "a", "n", "a", "n", "a">>
    @@ "krea-lora" :> <<"k", "r", "e", "a", "-", "l", "o", "r", "a">>
    @@ "seedream-edit" :>
        <<"s", "e", "e", "d", "r", "e", "a", "m", "-", "e", "d", "i", "t">>
    @@ "kontext" :> <<"k", "o", "n", "t", "e", "x", "t">>
    @@ "nosize" :> <<"n", "o", "s", "i", "z", "e">>
    @@ "widthonly" :> <<"w", "i", "d", "t", "h", "o", "n", "l", "y">>

\* lines 90-105, given prompt_name (None or a str) and prompt_text
BaseComponent(prompt_name, prompt_text, model) ==
    IF prompt_name # None /\ prompt_name.s # <<>>
    THEN NameAndText(_sanitize_component(prompt_name.s),
                     _truncate_to_word_boundary(_sanitize_component(prompt_text), MaxChars))
    ELSE IF prompt_text # <<>>
    THEN _truncate_to_word_boundary(_sanitize_component(prompt_text), MaxChars)
    ELSE _sanitize_component(model)

\* lines 80-105
base_component(p) ==
    BaseComponent(_base_name_from_params(p.params), PromptText(p.params),
                  ModelChars[p.model])

\* the 1-based position of the first character of s that is in cs, or
\* Len(s) + 1 when there is none
FirstOf(s, cs) ==
    IF \E i \in 1..Len(s) : s[i] \in cs
    THEN CHOOSE i \in 1..Len(s) : s[i] \in cs /\ \A k \in 1..(i - 1) : s[k] \notin cs
    ELSE Len(s) + 1

\* urlparse: the scheme is what precedes the first ":" when that is a
\* letter followed by letters, digits, "+", "-" or "."
IsSchemeChar(c) == IsAlnum(c) \/ c \in {"+", "-", "."}
HasScheme(url, colon) ==
    /\ 1 < colon /\ colon <= Len(url)
    /\ IsUpper(url[1]) \/ IsLower(url[1])
    /\ \A k \in 1..(colon - 1) : IsSchemeChar(url[k])
SchemeAt(url, colon) ==
    IF HasScheme(url, colon) THEN Lower(SubSeq(url, 1, colon - 1)) ELSE <<>>
\* urlparse(url).scheme
UrlScheme(url) == SchemeAt(url, FirstOf(url, {":"}))

AfterScheme(url, colon) ==
    IF HasScheme(url, colon) THEN SubSeq(url, colon + 1, Len(url)) ELSE url
\* what follows the netloc
AfterNetloc(rest) ==
    IF StartsWith(rest, <<"/", "/">>)
    THEN SubSeq(rest, 2 + FirstOf(SubSeq(rest, 3, Len(rest)), {"/", "?", "#"}), Len(rest))
    ELSE rest
BeforeQuery(rest) == SubSeq(rest, 1, FirstOf(rest, {"?", "#"}) - 1)
\* urlparse(url).path
UrlPath(url) == BeforeQuery(AfterNetloc(AfterScheme(url, FirstOf(url, {":"}))))

PngSuffix == <<".", "p", "n", "g">>
JpegSuffix == <<".", "j", "p", "e", "g">>
HTTPS == <<"h", "t", "t", "p", "s">>

\* lines 239-246
ExtensionForContentType(content_type) ==
    IF content_type = None \/ content_type.s = <<>> THEN PngSuffix
    ELSE IF Contains(Lower(content_type.s), <<"p", "n", "g">>) THEN PngSuffix
    ELSE IF Contains(Lower(content_type.s), <<"j", "p", "e", "g">>)
            \/ Contains(Lower(content_type.s), <<"j", "p", "g">>)
    THEN JpgSuffix
    ELSE PngSuffix

\* lines 236-246, given the lower-cased suffix of the URL's path
ExtensionFor(suffix, content_type) ==
    IF suffix \in {PngSuffix, JpgSuffix, JpegSuffix}
    THEN IF suffix = JpegSuffix THEN JpgSuffix ELSE suffix
    ELSE ExtensionForContentType(content_type)

_extension_for_url(url, content_type) ==
    ExtensionFor(Lower(PathSuffix(PathName(UrlPath(url)))), content_type)

\* lines 214-219 of _download: the scheme check
SchemeAllowed(url) == UrlScheme(url) \in {HTTP, HTTPS}

\* lines 110-113
ConvertToJpg(as_jpg, suffix) == as_jpg /\ suffix = PngSuffix
FinalSuffix(as_jpg, suffix) == IF ConvertToJpg(as_jpg, suffix) THEN JpgSuffix ELSE suffix
\* f"{base_component}-{timestamp}{suffix}"
FileName(base, stamp, suffix) == base \o <<"-">> \o stamp \o suffix

\* the file name of lines 109-114 for one URL and the content type its
\* download reported
Destination(p, stamp, url, content_type) ==
    FileName(base_component(p), stamp,
             FinalSuffix(p.as_jpg, _extension_for_url(url, content_type)))

----------------------------------------------------------------------------
(* The metadata redactor: _apply_exif_metadata, lines 296-359 *)

\* a registry name (model, endpoint, call) and a nested dict as JSON values
Name(n) == [t |-> "name", name |-> n]
Dict(d) == [t |-> "dict", d |-> d]

\* a str loses the first len(base) characters whether it starts with base
\* or not
StripBaseUnchecked(value, base) ==
    IF value.t = "str" THEN Str(DropPrefix(value.s, Len(base))) ELSE value

\* lines 308-309 and 313-314: a str that starts with base loses it
StripBase(value, base) ==
    IF value.t = "str" /\ StartsWith(value.s, base)
    THEN Str(DropPrefix(value.s, Len(base)))
    ELSE value

ShortenAll(entries, base) == [i \in 1..Len(entries) |-> StripBase(entries[i], base)]

\* lines 305-317 for one key
RedactUrlKey(arguments, key, source_base) ==
    IF ~Has(arguments, key) THEN arguments
    ELSE IF arguments[key].t = "str"
    THEN Put(arguments, key, StripBase(arguments[key], source_base))
    ELSE IF arguments[key].t = "seq"
    THEN Put(arguments, key, List(ShortenAll(arguments[key].items, source_base)))
    ELSE arguments

\* lines 322-335 for one entry_point
RedactLora(lora, safetensors_base) ==
    IF lora.t = "lora"
    THEN IF StartsWith(lora.path, safetensors_base)
         THEN [lora EXCEPT !.path = DropPrefix(lora.path, Len(safetensors_base))]
         ELSE lora
    ELSE StripBase(lora, safetensors_base)

\* lines 319-336
RedactLoras(arguments, safetensors_base) ==
    IF Has(arguments, "loras") /\ arguments["loras"].t = "seq"
    THEN Put(arguments, "loras",
             List([i \in 1..Len(arguments["loras"].items) |->
                      RedactLora(arguments["loras"].items[i], safetensors_base)]))
    ELSE arguments

\* lines 299-336: the arguments of the description
RedactedArguments(params, environ) ==
    RedactLoras(
        RedactUrlKey(
            RedactUrlKey(Pop(params, "file"), "image_url", environ.SOURCE_IMAGE_URL),
            "image_urls", environ.SOURCE_IMAGE_URL),
        environ.SAFETENSORS_URL)

\* lines 339-347
DescData(p, arguments) ==
    Update("model" :> Name(p.model) @@ "endpoint" :> Name(p.endpoint)
               @@ "call" :> Name(p.call) @@ "arguments" :> Dict(arguments),
           p.extra_metadata)

\* json.dumps with sorted keys and fixed separators: the text is decided by
\* the mapping alone, and is kept as the mapping it spells out
JsonDumps(data) == [t |-> "json", data |-> data]

\* the call of exif.set_exif_data that _apply_exif_metadata makes
_apply_exif_metadata(path, p, environ) ==
    [path |-> path,
     description |-> IF p.add_prompt_metadata
                     THEN JsonDumps(DescData(p, RedactedArguments(p.params, environ)))
                     ELSE None,
     model |-> p.model]

\* the strings a JSON value spells out
RECURSIVE StringsIn(_)
StringsIn(v) ==
    IF v.t = "str" THEN {v.s}
    ELSE IF v.t = "seq" THEN UNION {StringsIn(v.items[i]) : i \in 1..Len(v.items)}
    ELSE IF v.t = "lora" THEN {v.path}
    ELSE IF v.t = "dict" THEN UNION {StringsIn(v.d[k]) : k \in DOMAIN v.d}
    ELSE {}

\* the strings of a description
DescriptionStrings(description) ==
    UNION {StringsIn(description.data[k]) : k \in DOMAIN description.data}

----------------------------------------------------------------------------
(* What one operation is run on: the command line of main or the request   *)
(* of run_generation, the assets directory it finds, the response of the   *)
(* remote call and the content types the downloads report.                 *)

Cmd(model, opts, common) == [model |-> model, opts |-> opts, common |-> common]

Meta(value) == [valid |-> TRUE, value |-> value]
BadMeta == [valid |-> FALSE, value |-> EmptyDict]
\* -a and --meta
Embed(meta) == [CommonDefaults EXCEPT !.add_prompt_metadata = TRUE, !.meta = meta]

InlineHi == "prompt" :> Str(PromptHi)
Weights == <<"w", ";", "2">>
OnOtherServer == SafetensorsBase \o <<"x", ".", "p", "n", "g">>

\* the command lines of main
CliCommandLines ==
    {Cmd("dev", InlineHi, CommonDefaults),
     Cmd("dev", InlineHi, [CommonDefaults EXCEPT !.as_jpg = FALSE]),
     Cmd("dev", "prompt" :> Str(<<>>), CommonDefaults),
     Cmd("dev", "file" :> Str(CatsSpec), Embed(None)),
     Cmd("dev", "file" :> Str(NopeSpec), CommonDefaults),
     Cmd("bogus", InlineHi, CommonDefaults),
     Cmd("dev", InlineHi, [CommonDefaults EXCEPT !.meta = BadMeta]),
     Cmd("dev", InlineHi @@ "loras" :> List(<<Weights>>), CommonDefaults),
     Cmd("dev", InlineHi, Embed(Meta("model" :> Str(<<"x">>)))),
     Cmd("dev", InlineHi, Embed(Meta("note" :> Str(CatsPath)))),
     Cmd("kontext", InlineHi @@ "image_url" :> Str(<<"a">>), Embed(None)),
     Cmd("kontext", InlineHi @@ "image_url" :> Str(OnOtherServer), Embed(None)),
     Cmd("krea-lora", InlineHi @@ "loras" :> List(<<Weights>>), Embed(None)),
     Cmd("seedream-edit", InlineHi @@ "image_urls" :> List(<<<<"a", ",", "b">>>>),
         Embed(None))}

\* the keyword arguments of run_generation
WebRequest(model, path, embed, size, urls, name) ==
    [selected_model |-> model, prompt_path |-> path, include_prompt_metadata |-> embed,
     image_size |-> size, image_urls |-> urls, prompt_name |-> name, style_name |-> None]

WebRequests ==
    {WebRequest("dev", CatsPath, TRUE, <<>>, <<>>, CatsSpec),
     WebRequest("dev", CatsPath, FALSE, <<" ">> \o SquareTyped, <<>>, <<>>),
     WebRequest("dev", Cwd \o Slash \o NopeSpec, TRUE, <<>>, <<>>, NopeSpec),
     WebRequest("bogus", CatsPath, FALSE, <<>>, <<>>, CatsSpec),
     WebRequest("dev", CatsPath, FALSE, BadSize, <<>>, CatsSpec),
     WebRequest("seedream-edit", CatsPath, TRUE, <<>>, <<"a", ",", " ", "b">>, CatsSpec)}

\* generation.py, lines 32-36: the entries of meta that are not empty
WebMeta(req) ==
    Given([prompt_name |-> IF req.prompt_name = <<>> THEN None ELSE Str(req.prompt_name),
           style_name |-> req.style_name])

\* generation.py, lines 24-38: the argument list handed to parse_args
run_generation_args(req) ==
    Cmd(req.selected_model,
        Given([file |-> Str(req.prompt_path),
               image_size |-> IF Strip(req.image_size) # <<>>
                              THEN Str(Strip(req.image_size)) ELSE None,
               image_urls |-> IF NonEmptyParts(req.image_urls) # <<>>
                              THEN List(NonEmptyParts(req.image_urls)) ELSE None]),
        [add_prompt_metadata |-> req.include_prompt_metadata, preview_assets |-> FALSE,
         as_jpg |-> TRUE, jpg_options |-> None,
         meta |-> IF DOMAIN WebMeta(req) = {} THEN None ELSE Meta(WebMeta(req))])

\* the URLs a response may carry
MaxUrls == 2
PngOne == <<"h", "t", "t", "p", "s", ":", "/", "/", "x", "/", "a", ".", "p", "n", "g">>
PngTwo == <<"h", "t", "t", "p", "s", ":", "/", "/", "x", "/", "b", ".", "p", "n", "g">>
JpegOne == <<"h", "t", "t", "p", "s", ":", "/", "/", "x", "/", "b", ".", "j", "p", "e", "g">>
Bare == <<"H", "T", "T", "P", ":", "/", "/", "x", "/", "c", "?", "f", "=", ".", "j", "p", "g">>
OddScheme == <<"h", "t", "t", "p", "x", ":", "/", "/", "x", "/", "d", ".", "p", "n", "g">>
ResponseUrls == {PngOne, PngTwo, JpegOne, Bare, OddScheme}

UrlLists == UNION {[1..n -> ResponseUrls] : n \in 0..MaxUrls}

\* {"images": [{"url": ...}, ...], "seed": 7}
ResponseOf(urls) ==
    Map(<<[key |-> "images",
           val |-> List([i \in 1..Len(urls) |->
                            Map(<<[key |-> "url", val |-> Str(urls[i])]>>)])],
          [key |-> "seed", val |-> Num(7)]>>)

Responses ==
    {ResponseOf(urls) : urls \in UrlLists}
    \cup {Map(<<[key |-> "detail", val |-> Str(NotUrl)]>>)}

ContentTypes ==
    {None,
     Str(<<"i", "m", "a", "g", "e", "/", "p", "n", "g">>),
     Str(<<"I", "m", "a", "g", "e", "/", "J", "P", "E", "G">>)}

StampOne ==
    <<"2", "0", "2", "6", "0", "1", "0", "1", "_", "0", "0", "0", "0", "0", "0">>
StampTwo ==
    <<"2", "0", "2", "6", "0", "1", "0", "1", "_", "0", "0", "0", "0", "0", "1">>
Timestamps == {StampOne, StampTwo}

\* a file: the bytes it holds, named by where they came from, and whether
\* they were re-encoded as JPEG
FileContent(data, reencoded) == [data |-> data, reencoded |-> reencoded]
Old == FileContent(<<"o", "l", "d">>, FALSE)

Directory(exists, files) == [exists |-> exists, files |-> files]
\* the assets directory before the operation: missing, empty, or holding
\* one file of an earlier run
OutputDirs ==
    {Directory(FALSE, EmptyDict),
     Directory(TRUE, EmptyDict),
     Directory(TRUE, (<<"h", "i", "-">> \o StampOne \o JpgSuffix) :> Old),
     Directory(TRUE, (<<"h", "i", "-">> \o StampOne \o PngSuffix) :> Old)}

----------------------------------------------------------------------------
(* One operation, from the entry_point point to its result *)

Init ==
    /\ pc = "start"
    /\ entry_point \in {"cli", "web"}
    /\ sys_argv \in IF entry_point = "cli" THEN CliCommandLines
                    ELSE {run_generation_args(req) : req \in WebRequests}
    /\ os_environ \in Environments
    /\ prompt_files = PromptFiles
    /\ parsed = None
    /\ NoExtract
    /\ remote_calls = 0
    /\ timestamp = None
    /\ output_dir \in OutputDirs
    /\ output_dir_at_start = output_dir
    /\ downloads = 0
    /\ written = <<>>
    /\ exif_calls = <<>>
    /\ stdout = <<>>
    /\ result = None
    /\ NoCall
    /\ NoEdit

\* what a process ends with, and what run_generation returns
Exit(code, stderr) == [exit |-> code, stderr |-> stderr]
Propagates(kind) == [raised |-> kind]
WebResult(error, paths, message) == [error |-> error, paths |-> paths, message |-> message]

\* where the entry_point point goes after parse_args
PcAfterParse(r) == IF r.ok THEN "invoke" ELSE "aborted"

\* __init__.py, line 17: parse_args is outside the try; a parser error
\* leaves through SystemExit(2), a missing prompt file as a traceback
main_parse_args ==
    /\ pc = "start"
    /\ entry_point = "cli"
    /\ \E rand \in RandomSeeds :
           parsed' = parse_args(sys_argv, MODEL_REGISTRY, os_environ, prompt_files, rand)
    /\ pc' = PcAfterParse(parsed')
    /\ result' = IF parsed'.ok THEN None
                 ELSE IF parsed'.kind = "SystemExit" THEN Exit(2, <<parsed'.why>>)
                 ELSE Exit(1, <<"Traceback", parsed'.kind>>)
    /\ UNCHANGED <<sys_argv, os_environ, prompt_files, extractVars, entry_point, remote_calls,
                   timestamp, output_dir, output_dir_at_start, downloads, written,
                   exif_calls, stdout, callVars, editVars>>

\* generation.py, lines 40-47: an Exception becomes the error dict; the
\* SystemExit of a parser error is no Exception and leaves run_generation
run_generation_parse_args ==
    /\ pc = "start"
    /\ entry_point = "web"
    /\ \E rand \in RandomSeeds :
           parsed' = parse_args(sys_argv, MODEL_REGISTRY, os_environ, prompt_files, rand)
    /\ pc' = PcAfterParse(parsed')
    /\ result' = IF parsed'.ok THEN None
                 ELSE IF parsed'.kind = "SystemExit" THEN Propagates("SystemExit")
                 ELSE WebResult("Unable to parse arguments", <<>>, None)
    /\ UNCHANGED <<sys_argv, os_environ, prompt_files, extractVars, entry_point, remote_calls,
                   timestamp, output_dir, output_dir_at_start, downloads, written,
                   exif_calls, stdout, callVars, editVars>>

\* lines 55 and 64-65: what generate_images prints around the remote call
\* (the lines are texts like the paths; the pprint of the request is
\* shortened to its braces and the elapsed time to its label)
RequestInfo == <<<<"R", "e", "q", "u", "e", "s", "t", ":">>, <<"{", "}">>>>
Elapsed == <<<<"E", "l", "a", "p", "s", "e", "d">>>>

\* generate_images, lines 49-65: the remote call returns
Invoke ==
    /\ pc = "invoke"
    /\ remote_calls' = remote_calls + 1
    /\ payload' \in Responses
    /\ stdout' = stdout \o RequestInfo \o Elapsed
    /\ pc' = "extract"
    /\ UNCHANGED <<parseVars, extracted, entry_point, timestamp, output_dir,
                   output_dir_at_start, downloads, written, exif_calls, result, callVars, editVars>>

\* generate_images, lines 49-62: the remote call raises
InvokeFails ==
    /\ pc = "invoke"
    /\ remote_calls' = remote_calls + 1
    /\ stdout' = stdout \o RequestInfo
    /\ pc' = "raised"
    /\ UNCHANGED <<parseVars, extractVars, entry_point, timestamp, output_dir,
                   output_dir_at_start, downloads, written, exif_calls, result, callVars, editVars>>

\* the mutant of OutputDirAfterExtract: the directory is made before the
\* URL list is looked at
OutputDirMadeFirst(urls, dir) == [dir EXCEPT !.exists = TRUE]

\* lines 73-78: the directory after the check of the URL list; mkdir with
\* parents and exist_ok
OutputDirAfterExtract(urls, dir) ==
    IF urls = <<>> THEN dir ELSE [dir EXCEPT !.exists = TRUE]

\* a wrapper object: the zero-argument accessors it has, by name, each
\* returning a value or needing an argument (TypeError when called bare)
Object(methods) == [t |-> "obj", methods |-> methods]
Returns(value) == [raises |-> FALSE, value |-> value]
NeedsArgument == [raises |-> TRUE, value |-> None]

\* line 133
accessor_methods == <<"get", "result", "value", "json">>

\* line 136: callable(method) and not isinstance(payload, Mapping)
HasAccessor(current, method_name) ==
    current.t = "obj" /\ Has(current.methods, method_name)

\* lines 134-146: the for loop from the i-th accessor name on
RECURSIVE CoerceFrom(_, _)
RECURSIVE AfterCall(_, _, _)
CoerceFrom(current, i) ==
    IF i > Len(accessor_methods) THEN current
    ELSE IF ~HasAccessor(current, accessor_methods[i]) THEN CoerceFrom(current, i + 1)
    ELSE IF current.methods[accessor_methods[i]].raises THEN CoerceFrom(current, i + 1)
    ELSE AfterCall(current, current.methods[accessor_methods[i]].value, i)

\* lines 141-144
AfterCall(current, next_payload, i) ==
    IF next_payload.t = "none" THEN CoerceFrom(current, i + 1)
    ELSE IF IsMapping(next_payload) THEN next_payload
    ELSE CoerceFrom(next_payload, i + 1)

\* _coerce_payload, lines 128-146
_coerce_payload(invocation) ==
    IF IsMapping(invocation) THEN invocation ELSE CoerceFrom(invocation, 1)

\* generate_images, lines 67-105: the payload, the time stamp, the URL
\* list, and the ValueError or the directory
ExtractOrRaise ==
    /\ pc = "extract"
    /\ timestamp' \in Timestamps
    /\ extracted' = _extract_urls(_coerce_payload(payload))
    /\ output_dir' = OutputDirAfterExtract(extracted', output_dir)
    /\ pc' = IF extracted' = <<>> THEN "raised" ELSE "download"
    /\ UNCHANGED <<parseVars, payload, entry_point, remote_calls, output_dir_at_start,
                   downloads, written, exif_calls, stdout, result, callVars, editVars>>

\* path.write_bytes and img.save: the file is created or replaced
WriteFile(dir, name, content) == [dir EXCEPT !.files = Put(dir.files, name, content)]

\* lines 109-123, given the file name and whether the bytes are re-encoded
WriteTo(path, url, reencoded) ==
    /\ output_dir' = WriteFile(output_dir, path, FileContent(url, reencoded))
    /\ exif_calls' = Append(exif_calls, _apply_exif_metadata(path, parsed.value, os_environ))
    /\ written' = Append(written, path)

\* generate_images, lines 107-123: one turn of the loop that runs through
DownloadAndWrite ==
    /\ pc = "download"
    /\ Len(written) < Len(extracted)
    /\ SchemeAllowed(extracted[Len(written) + 1])
    /\ \E content_type \in ContentTypes :
           WriteTo(Destination(parsed.value, timestamp, extracted[Len(written) + 1],
                               content_type),
                   extracted[Len(written) + 1],
                   ConvertToJpg(parsed.value.as_jpg,
                                _extension_for_url(extracted[Len(written) + 1],
                                                   content_type)))
    /\ downloads' = downloads + 1
    /\ UNCHANGED <<pc, parseVars, extractVars, entry_point, remote_calls, timestamp,
                   output_dir_at_start, stdout, result, callVars, editVars>>

\* generate_images, lines 107-108: _download raises, on the scheme or in
\* urlopen; nothing catches it in the loop
DownloadFails ==
    /\ pc = "download"
    /\ Len(written) < Len(extracted)
    /\ downloads' = downloads + 1
    /\ pc' = "raised"
    /\ UNCHANGED <<parseVars, extractVars, entry_point, remote_calls, timestamp, output_dir,
                   output_dir_at_start, written, exif_calls, stdout, result, callVars, editVars>>

\* what a write that failed may leave at its path: nothing new (the open or
\* the decoding failed), or a file cut short (open for writing truncates, and
\* the failure came after it)
Truncated(reencoded) == FileContent(<<>>, reencoded)
AfterFailedWrite(dir, path, reencoded) ==
    {dir, WriteFile(dir, path, Truncated(reencoded))}

\* generate_images, lines 113-118: the download is there and _write_jpg or
\* path.write_bytes raises; nothing catches it in the loop
WriteFails ==
    /\ pc = "download"
    /\ Len(written) < Len(extracted)
    /\ SchemeAllowed(extracted[Len(written) + 1])
    /\ \E content_type \in ContentTypes :
           output_dir' \in
               AfterFailedWrite(
                   output_dir,
                   Destination(parsed.value, timestamp, extracted[Len(written) + 1],
                               content_type),
                   ConvertToJpg(parsed.value.as_jpg,
                                _extension_for_url(extracted[Len(written) + 1],
                                                   content_type)))
    /\ downloads' = downloads + 1
    /\ pc' = "raised"
    /\ UNCHANGED <<parseVars, extractVars, entry_point, remote_calls, timestamp,
                   output_dir_at_start, written, exif_calls, stdout, result, callVars, editVars>>

\* line 125, then __init__.py lines 27-28 or generation.py lines 50-55
Return ==
    /\ pc = "download"
    /\ Len(written) = Len(extracted)
    /\ pc' = "returned"
    /\ stdout' = IF entry_point = "cli" THEN stdout \o written ELSE stdout
    /\ result' = IF entry_point = "cli" THEN Exit(0, <<>>)
                 ELSE WebResult(None, written, "Generated")
    /\ UNCHANGED <<parseVars, extractVars, entry_point, remote_calls, timestamp, output_dir,
                   output_dir_at_start, downloads, written, exif_calls, callVars, editVars>>

\* __init__.py lines 23-25 and generation.py lines 51-52
HandleException ==
    /\ pc = "raised"
    /\ pc' = "failed"
    /\ result' = IF entry_point = "cli" THEN Exit(1, <<"error">>)
                 ELSE WebResult("error", <<>>, None)
    /\ UNCHANGED <<parseVars, extractVars, entry_point, remote_calls, timestamp, output_dir,
                   output_dir_at_start, downloads, written, exif_calls, stdout, callVars, editVars>>

Next ==
    \/ main_parse_args
    \/ run_generation_parse_args
    \/ Invoke
    \/ InvokeFails
    \/ ExtractOrRaise
    \/ DownloadAndWrite
    \/ DownloadFails
    \/ WriteFails
    \/ Return
    \/ HandleException

Spec == Init /\ [][Next]_vars

----------------------------------------------------------------------------
(* The claims about one operation *)

\* C1: the destination paths of one generate_images call are pairwise
\* distinct, whatever the URL suffixes, content types and as_jpg, so that
\* as many files are on disk after the call as URLs were extracted.
C1_DestinationsPairwiseDistinct ==
    /\ \A i, j \in 1..Len(written) : i # j => written[i] # written[j]
    /\ pc = "returned"
           => Cardinality({f \in DOMAIN output_dir.files :
                               \E i \in 1..Len(written) : written[i] = f})
                  = Len(extracted)

\* C2: every file that was in the output directory before the call is
\* still there with the same content.
C2_ExistingFilesKept ==
    \A f \in DOMAIN output_dir_at_start.files :
        /\ f \in DOMAIN output_dir.files
        /\ output_dir.files[f] = output_dir_at_start.files[f]

\* what the description must not show: the two configured base URLs and
\* the paths of the local prompt files
MustNotShow ==
    {os_environ.SOURCE_IMAGE_URL, os_environ.SAFETENSORS_URL} \cup DOMAIN prompt_files

\* C4: with add_prompt_metadata set, no string of the description handed
\* to the EXIF writer contains a local path, the source-image base URL or
\* the safetensors base URL.
C4_DescriptionHidesPathsAndBases ==
    \A i \in 1..Len(exif_calls) :
        exif_calls[i].description # None
        => \A s \in DescriptionStrings(exif_calls[i].description) :
               \A hidden \in MustNotShow : ~Contains(s, hidden)

\* C5: in the description the keys model, endpoint, call and arguments hold
\* the values of the parsed request, whatever the extra metadata holds.
C5_CoreKeysKept ==
    \A i \in 1..Len(exif_calls) :
        exif_calls[i].description # None
        => /\ exif_calls[i].description.data["model"] = Name(parsed.value.model)
           /\ exif_calls[i].description.data["endpoint"] = Name(parsed.value.endpoint)
           /\ exif_calls[i].description.data["call"] = Name(parsed.value.call)
           /\ exif_calls[i].description.data["arguments"]
                  = Dict(RedactedArguments(parsed.value.params, os_environ))

\* the command lines the claim names as failing: an unknown model, an
\* option the model does not declare, a prompt file that is missing, and
\* --meta text that is not JSON
ResolutionMustFail ==
    \/ ~KnownModel
    \/ \E k \in DOMAIN sys_argv.opts : k # "file" /\ ~Declares(k)
    \/ /\ Supplied("file")
       /\ ~_resolve_filespec(sys_argv.opts["file"].s, DOMAIN prompt_files).ok
    \/ sys_argv.common.meta # None /\ ~sys_argv.common.meta.valid

\* C6: in both entry points, when option resolution fails the remote
\* client is never invoked and nothing is downloaded or written.
C6_FailedResolutionStopsOperation ==
    (ResolutionMustFail \/ (parsed # None /\ ~parsed.ok))
    => /\ remote_calls = 0
       /\ downloads = 0
       /\ written = <<>>
       /\ output_dir = output_dir_at_start
       /\ pc \in {"start", "aborted"}

\* run_generation on a prompt file that is missing: the error dict, and
\* nothing else done
C6_Witness ==
    /\ pc = "aborted"
    /\ entry_point = "web"
    /\ ~parsed.ok /\ parsed.kind = "FileNotFoundError"
    /\ result = WebResult("Unable to parse arguments", <<>>, None)
    /\ remote_calls = 0

\* no leaf of the response is a string starting with "http"
NoUrlLeaf(v) ==
    \A i \in 1..Len(DocOrderLeaves(v)) :
        ~(DocOrderLeaves(v)[i].t = "str"
            /\ StartsWith(Lower(DocOrderLeaves(v)[i].s), HTTP))

\* C7: a response without a URL leaf makes generate_images raise after
\* exactly one remote invocation; the output directory is not created and
\* nothing is downloaded or written.
C7_NoUrlsRaisesBeforeAnyWrite ==
    (payload # None /\ NoUrlLeaf(payload) /\ pc # "extract")
    => /\ pc \in {"raised", "failed"}
       /\ remote_calls = 1
       /\ downloads = 0
       /\ written = <<>>
       /\ output_dir = output_dir_at_start
       /\ pc = "failed" => result \in {Exit(1, <<"error">>), WebResult("error", <<>>, None)}

\* main on a response with an empty image list, the assets directory
\* missing: exit code 1 after one remote call, still no directory
C7_Witness ==
    /\ pc = "failed"
    /\ entry_point = "cli"
    /\ payload = ResponseOf(<<>>)
    /\ remote_calls = 1
    /\ ~output_dir.exists
    /\ result = Exit(1, <<"error">>)

----------------------------------------------------------------------------
(* _parse_image_size on its own *)

MaxTokenLen == 3

TokenChars == {"0", "1", "2", "x", "X", "-", " ", "a"}

\* every text of at most MaxTokenLen characters, and some longer ones
SizeTokens ==
    UNION {[1..n -> TokenChars] : n \in 0..MaxTokenLen}
    \cup {Square, SquareTyped, Wide, <<" ">> \o SquareTyped \o <<" ">>,
          <<"a", "b", "c", "x", "d", "e", "f">>,
          <<"-", "1", "x", "2">>, <<"+", "1", "x", "2">>, <<"1", "0", "X", "0", "2">>,
          <<" ", "1", " ", "x", " ", "2", " ">>, <<"1", "x", "2", "x", "1">>}

AllowedSizeSets == {{}, {Square, Wide}, {SquareTyped}}

InitSize ==
    /\ pc = "size"
    /\ call_args \in [value : SizeTokens, allowed_sizes : AllowedSizeSets,
                      allow_dimensions : BOOLEAN]
    /\ call_result = None
    /\ NoParse
    /\ NoExtract
    /\ NoRun
    /\ NoEdit

ParseImageSize ==
    /\ pc = "size"
    /\ call_result' = _parse_image_size(call_args.value, call_args.allowed_sizes,
                                        call_args.allow_dimensions)
    /\ pc' = "size_done"
    /\ UNCHANGED <<call_args, parseVars, extractVars, runVars, editVars>>

NextSize == ParseImageSize

SpecSize == InitSize /\ [][NextSize]_vars

\* the token without the blanks around it, lower-cased
Trimmed(token) == Lower(Strip(token))

\* the token names a preset of the set, letter case aside
NamesPreset(token, allowed_sizes) ==
    \E size \in allowed_sizes : Lower(size) = Trimmed(token)

\* text spells an integer above zero: digits, not all of them zero, a "+"
\* before them and blanks around them allowed
SpellsPositive(text) ==
    LET body == Strip(text)
        digits == IF body # <<>> /\ Head(body) = "+" THEN Tail(body) ELSE body
    IN  /\ digits # <<>>
        /\ \A i \in 1..Len(digits) : IsDigit(digits[i])
        /\ \E i \in 1..Len(digits) : digits[i] # "0"

\* the token is W x H: one "x", a positive integer on either side
SpellsDimensions(token) ==
    \E i \in 1..Len(Trimmed(token)) :
        /\ Trimmed(token)[i] = "x"
        /\ \A j \in 1..Len(Trimmed(token)) : j # i => Trimmed(token)[j] # "x"
        /\ SpellsPositive(SubSeq(Trimmed(token), 1, i - 1))
        /\ SpellsPositive(SubSeq(Trimmed(token), i + 1, Len(Trimmed(token))))

\* C11: _parse_image_size accepts a token exactly when, blanks around it
\* and letter case aside, it names an allowed preset, or dimensions are
\* permitted and it is W x H with two positive integers; an accepted preset
\* is returned lower-cased; every other token is rejected.
C11_SizeAcceptedIffPresetOrDimensions ==
    pc = "size_done"
    => /\ call_result.ok
           <=> \/ NamesPreset(call_args.value, call_args.allowed_sizes)
               \/ call_args.allow_dimensions /\ SpellsDimensions(call_args.value)
       /\ NamesPreset(call_args.value, call_args.allowed_sizes)
           => call_result.value = Trimmed(call_args.value)

\* "1x0" with dimensions permitted: turned down for its zero
C11_Witness ==
    /\ pc = "size_done"
    /\ call_args.value = <<"1", "x", "0">>
    /\ call_args.allow_dimensions
    /\ ~call_result.ok

-----------------------------------------------------------------------------
(* The prompt of a resolved command line *)

\* the parameters of a successful parse_args
Params == parsed.value.params

-----------------------------------------------------------------------------
(* The declared defaults *)

\* a command line with the prompt text and no other flag
OnlyPromptText == DOMAIN sys_argv.opts = {"prompt"} /\ sys_argv.common = CommonDefaults
DeclaredOptions == MODEL_REGISTRY[sys_argv.model].options
\* the key an option's value is sent under (lines 569-570)
ParamName(key) ==
    IF sys_argv.model = "nano-banana" /\ key = "image_size" THEN "aspect_ratio" ELSE key

\* C13 as stated: with only the prompt text, every declared option is in the
\* parameters under its own name with its declared default.
C13_EveryOptionAtDeclaredDefault ==
    (pc = "parse_done" /\ KnownModel /\ OnlyPromptText)
    => /\ parsed.ok
       /\ \A key \in DOMAIN DeclaredOptions :
              Has(Params, key) /\ Params[key] = DeclaredOptions[key].default

\* C13, amended: with only the prompt text, the prompt is that text, every
\* other declared option whose default is not null is in the parameters
\* with its declared default (nano-banana's image_size under aspect_ratio),
\* a seed whose default is null is there with a generated integer, and the
\* other options whose default is null, booleans aside, are not there.
C13_NonNullDefaultsApplied ==
    (pc = "parse_done" /\ KnownModel /\ OnlyPromptText)
    => /\ parsed.ok
       /\ \A key \in DOMAIN DeclaredOptions :
              IF key = "prompt" THEN Params[key] = sys_argv.opts["prompt"]
              ELSE IF DeclaredOptions[key].default # None
              THEN /\ Has(Params, ParamName(key))
                   /\ Params[ParamName(key)] = DeclaredOptions[key].default
                   /\ ParamName(key) # key => ~Has(Params, key)
              ELSE IF key = "seed"
              THEN Has(Params, key) /\ \E rand \in RandomSeeds : Params[key] = Num(rand)
              ELSE DeclaredOptions[key].type # "bool" => ~Has(Params, key)

\* schnell with its prompt alone: 4 steps, the safety checker off, a
\* generated seed and no image_size
C13_Witness ==
    /\ pc = "parse_done" /\ parsed.ok /\ OnlyPromptText
    /\ sys_argv.model = "schnell"
    /\ Params["num_inference_steps"] = Num(4)
    /\ Params["enable_safety_checker"] = Bool(FALSE)
    /\ Params["seed"] = Num(2147483647)
    /\ ~Has(Params, "image_size")

-----------------------------------------------------------------------------
(* _normalize_external_resources on its own *)

MaxItemLen == 3
ItemChars == {"a", ",", "\n", " ", "."}
Absolute == <<"x", ":", "/", "/", "y">>
FirstItems ==
    UNION {[1..n -> ItemChars] : n \in 0..MaxItemLen}
    \cup {Absolute, <<"a", ",", "b">>, <<"a", "\n", "b">>, <<"b", ";", "2">>,
          <<" ", "a", " ", ",", "\n", Absolute[1], ".", "p", "\n">>}
\* the raw inputs: one item, or two with a second as in the repeated flag
RawValueLists ==
    {<<item>> : item \in FirstItems}
    \cup {<<item, <<"c">>>> : item \in FirstItems}
    \cup {<<item, <<"c", ".", "p", ",", "d">>>> : item \in FirstItems}
BaseUrls == {SourceBase, RStripSlash(SourceBase)}

InitResources ==
    /\ pc = "resources"
    /\ call_args \in [raw_values : RawValueLists, base_url : BaseUrls,
                      default_suffix : {JpgSuffix}, return_with_weights : BOOLEAN]
    /\ call_result = None
    /\ NoParse
    /\ NoExtract
    /\ NoRun
    /\ NoEdit

NormalizeResources ==
    /\ pc = "resources"
    /\ call_result' = List(_normalize_external_resources(
                               call_args.raw_values, call_args.base_url,
                               call_args.default_suffix, call_args.return_with_weights))
    /\ pc' = "resources_done"
    /\ UNCHANGED <<call_args, parseVars, extractVars, runVars, editVars>>

NextResources == NormalizeResources

SpecResources == InitResources /\ [][NextResources]_vars

\* item with its newlines read as commas
NewlinesAsCommas(item) == [i \in 1..Len(item) |-> IF item[i] = "\n" THEN "," ELSE item[i]]

\* the tokens of the raw inputs: split on commas and newlines, trimmed, the
\* empty ones dropped, in input order
RECURSIVE TokensOf(_)
TokensOf(raw_values) ==
    IF raw_values = <<>> THEN <<>>
    ELSE StrippedNonEmpty(Split(NewlinesAsCommas(Head(raw_values)), ","))
             \o TokensOf(Tail(raw_values))

\* the base URL with its one closing slash
BaseWithSlash(base_url) ==
    IF base_url[Len(base_url)] = "/" THEN base_url ELSE base_url \o <<"/">>

\* what a token is to become
Expanded(token, base_url, default_suffix) ==
    IF Contains(token, <<":", "/", "/">>) THEN token
    ELSE BaseWithSlash(base_url) \o token
             \o (IF \E i \in 1..Len(token) : token[i] = "." THEN <<>> ELSE default_suffix)

\* the value of an output entry: the entry, or the first of (value, weight)
EntryValue(entry, return_with_weights) == IF return_with_weights THEN entry[1] ELSE entry

HasWeightMark(raw_values) ==
    \E i \in 1..Len(raw_values) : \E j \in 1..Len(raw_values[i]) : raw_values[i][j] = ";"

\* C14: the output has one entry per token of the raw inputs split on commas
\* and newlines, trimmed, empties dropped, in input order; a token with
\* "://" is kept, any other becomes base URL + token, with the default
\* extension when the token has no dot.
C14_SplitOnCommasAndNewlines ==
    (pc = "resources_done" /\ ~HasWeightMark(call_args.raw_values))
    => LET tokens == TokensOf(call_args.raw_values)
       IN  /\ Len(call_result.items) = Len(tokens)
           /\ \A i \in 1..Len(tokens) :
                  EntryValue(call_result.items[i], call_args.return_with_weights)
                      = Expanded(tokens[i], call_args.base_url, call_args.default_suffix)

\* the same with the raw inputs split on commas alone, as line 289 does
RECURSIVE CommaTokensOf(_)
CommaTokensOf(raw_values) ==
    IF raw_values = <<>> THEN <<>>
    ELSE StrippedNonEmpty(Split(Head(raw_values), ",")) \o CommaTokensOf(Tail(raw_values))

SplitOnCommasOnly ==
    (pc = "resources_done" /\ ~HasWeightMark(call_args.raw_values))
    => LET tokens == CommaTokensOf(call_args.raw_values)
       IN  /\ Len(call_result.items) = Len(tokens)
           /\ \A i \in 1..Len(tokens) :
                  EntryValue(call_result.items[i], call_args.return_with_weights)
                      = Expanded(tokens[i], call_args.base_url, call_args.default_suffix)

-----------------------------------------------------------------------------
(* The seed *)

\* C15: for a model that declares seed, a resolved result has a seed: the
\* supplied one; else, the declared default being null, a generated integer
\* of 0 .. 2^32 - 1; else the declared default.  (The generated values of
\* the model are the least of that range and 2^31 - 1.)
C15_SeedResolution ==
    (pc = "parse_done" /\ parsed.ok /\ Declares("seed"))
    => /\ Has(Params, "seed")
       /\ IF Supplied("seed") THEN Params["seed"] = sys_argv.opts["seed"]
          ELSE IF DeclaredOptions["seed"].default = None
          THEN /\ Params["seed"].t = "int"
               /\ Params["seed"].n \in 0..2147483647
          ELSE Params["seed"] = DeclaredOptions["seed"].default

\* realism, which declares seed 5, with no seed supplied
C15_Witness ==
    /\ pc = "parse_done" /\ parsed.ok
    /\ sys_argv.model = "realism" /\ ~Supplied("seed")
    /\ Params["seed"] = Num(5)

-----------------------------------------------------------------------------
(* The streams of the command line entry point *)

\* C16: when generate_images raises, main exits with code 1, with a message
\* on the error stream and no output path printed; when it succeeds, the
\* standard stream holds exactly the returned paths, in the returned order,
\* and nothing else.
C16_CliStreams ==
    entry_point = "cli"
    => /\ pc = "failed"
            => /\ result.exit = 1
               /\ result.stderr # <<>>
               /\ \A i \in 1..Len(stdout) : \A j \in 1..Len(written) : stdout[i] # written[j]
       /\ pc = "returned" => stdout = written

\* what does hold of a successful run: the returned paths are the last
\* lines printed, in the returned order
PathsPrintedLast ==
    (entry_point = "cli" /\ pc = "returned")
    => /\ result = Exit(0, <<>>)
       /\ Len(stdout) >= Len(written)
       /\ SubSeq(stdout, Len(stdout) - Len(written) + 1, Len(stdout)) = written

\* what does hold of a failed run
FailureOnErrorStream ==
    (entry_point = "cli" /\ pc = "failed")
    => /\ result.exit = 1
       /\ result.stderr # <<>>
       /\ \A i \in 1..Len(stdout) : \A j \in 1..Len(written) : stdout[i] # written[j]

-----------------------------------------------------------------------------
(* _resolve_filespec on its own *)

MaxSpecLen == 3
SpecChars == {"a", "/", "."}
Filespecs ==
    UNION {[1..n -> SpecChars] : n \in 0..MaxSpecLen}
    \cup {CatsSpec, <<"a", ".", "t", "x", "t">>, <<"/", "w", "/", "a", ".", "a">>,
          <<"a", "/", "/", "a", "/", ".", "/", "a">>}

\* what is there in the file system: the root and the working directory,
\* and besides them nothing, or prompts/ with files in it, or prompts as a
\* file and files elsewhere
PromptsDir == Cwd \o Slash \o PromptsDirName
FileSystems ==
    {{Slash, Cwd},
     {Slash, Cwd, PromptsDir, PromptsDir \o <<"/", "a", ".", "t", "x", "t">>,
      PromptsDir \o <<"/", "a", ".", "a">>, PromptsDir \o <<"/", ".", "t", "x", "t">>,
      CatsPath, PromptsDir \o <<"/", ".", ".">>},
     {Slash, Cwd, PromptsDir, Cwd \o <<"/", "a">>, Cwd \o <<"/", "a", "/", "a">>, <<"/", "a">>,
      <<"/", "w", "/", "a", ".", "a">>, Cwd \o <<"/", "a", "/", "a", "/", "a">>,
      PromptsDir \o <<"/", "a">>, PromptsDir \o <<"/", ".", "a">>,
      Cwd \o <<"/", "a", ".">>}}

InitFilespec ==
    /\ pc = "filespec"
    /\ call_args \in [filespec : Filespecs, existing : FileSystems]
    /\ call_result = None
    /\ NoParse
    /\ NoExtract
    /\ NoRun
    /\ NoEdit

ResolveFilespec ==
    /\ pc = "filespec"
    /\ call_result' = _resolve_filespec(call_args.filespec, call_args.existing)
    /\ pc' = "filespec_done"
    /\ UNCHANGED <<call_args, parseVars, extractVars, runVars, editVars>>

NextFilespec == ResolveFilespec

SpecFilespec == InitFilespec /\ [][NextFilespec]_vars

HasSeparator(filespec) == \E i \in 1..Len(filespec) : filespec[i] = "/"
HasDot(filespec) == \E i \in 1..Len(filespec) : filespec[i] = "."

\* the path a filespec names, as the claim has it
NamedPath(filespec) ==
    IF HasSeparator(filespec)
    THEN IF filespec[1] = "/" THEN filespec ELSE Cwd \o <<"/">> \o filespec
    ELSE IF HasDot(filespec) THEN PromptsDir \o <<"/">> \o filespec
    ELSE PromptsDir \o <<"/">> \o filespec \o <<".", "t", "x", "t">>

\* C17: a filespec with a separator is that literal path (absolute as it
\* is, relative to the base directory), one without a separator and with a
\* dot is prompts/<filespec>, any other prompts/<filespec>.txt; the path is
\* returned only if it exists, and FileNotFoundError is raised otherwise.
\* (Paths are compared as pathlib writes them.)
C17_FilespecResolution ==
    pc = "filespec_done"
    => /\ call_result.ok <=> PathStr(NamedPath(call_args.filespec)) \in call_args.existing
       /\ call_result.ok => call_result.path = PathStr(NamedPath(call_args.filespec))

\* "a" where prompts/a.txt is there
C17_Witness ==
    /\ pc = "filespec_done"
    /\ call_args.filespec = <<"a">>
    /\ call_result = [ok |-> TRUE, path |-> PromptsDir \o <<"/", "a", ".", "t", "x", "t">>]

-----------------------------------------------------------------------------
(* The editor: prompt and style files (image_common/prompts.py and the     *)
(* endpoints of imageedit/routes.py; app.py holds the same handlers).  A   *)
(* directory is a function from the stem of a .txt file to its text; a     *)
(* request is its JSON body, a dictionary with the keys it has.            *)

\* Path(candidate).name
LastComponent(parts) == IF parts = <<>> THEN <<>> ELSE parts[Len(parts)]

\* candidate[:-4] if candidate.endswith(".txt")
WithoutTxt(candidate) ==
    IF Len(candidate) >= 4 /\ SubSeq(candidate, Len(candidate) - 3, Len(candidate)) = TxtSuffix
    THEN SubSeq(candidate, 1, Len(candidate) - 4)
    ELSE candidate

normalize_prompt_name(raw_name) ==
    IF Strip(raw_name) = <<>> THEN <<>>
    ELSE WithoutTxt(LastComponent(Components(Strip(raw_name))))

\* text.replace("\r\n", "\n").replace("\r", "\n")
RECURSIVE NormalizeNewlines(_)
NormalizeNewlines(text) ==
    IF text = <<>> THEN <<>>
    ELSE IF Head(text) # "\r" THEN <<Head(text)>> \o NormalizeNewlines(Tail(text))
    ELSE IF Len(text) > 1 /\ text[2] = "\n" THEN <<"\n">> \o NormalizeNewlines(Tail(Tail(text)))
    ELSE <<"\n">> \o NormalizeNewlines(Tail(text))

\* the mutant of write_prompt: a file that is there is left as it is
write_prompt_if_absent(dir, stem, text) ==
    IF Has(dir, stem) THEN dir ELSE Put(dir, stem, NormalizeNewlines(text))

\* write_prompt on the file of that stem
write_prompt(dir, stem, text) == Put(dir, stem, NormalizeNewlines(text))

Response(status, body) == [status |-> status, body |-> body]
ErrorBody(error) == [error |-> error]

\* f"{base_name}_{counter}", or base_name at 0
CandidateName(base_name, counter) ==
    IF counter = 0 THEN base_name ELSE base_name \o <<"_">> \o FormatNat(counter)

\* the mutant of FreeCounter: the loop of lines 283-288 is left out
FreeCounterUnchecked(base_name, counter, dir) == counter

\* the while loop of lines 283-288: the counter it ends with
RECURSIVE FreeCounter(_, _, _)
FreeCounter(base_name, counter, dir) ==
    IF ~Has(dir, CandidateName(base_name, counter)) THEN counter
    ELSE FreeCounter(base_name, counter + 1, dir)

\* lines 290-292, given the name the loop ended with
SaveStyleAs(candidate_name, text) ==
    /\ styles_dir' = write_prompt(styles_dir, candidate_name, text)
    /\ response' = Response(200, [success |-> TRUE, saved_name |-> candidate_name])

MaxFiles == 4
OldText == <<"o">>
OneLine == <<"x">>
TwoLines == <<"y", "\r", "\n", "z">>
Texts == {OneLine, TwoLines}
StyleA == <<"a">>
StyleDirs ==
    {EmptyDict, StyleA :> OldText, (StyleA :> OldText) @@ (<<"a", "_", "1">> :> OldText),
     (StyleA :> OldText) @@ (<<"a", "_", "2">> :> OldText), <<"a", "_", "1">> :> OldText}
RequestNames ==
    {StyleA, <<" ", "a", " ">>, <<"a", ".", "t", "x", "t">>, <<"d", "/", "a">>, <<"a", "_", "1">>,
     <<"b">>, <<>>, <<" ">>}
Requests ==
    [name : RequestNames, text : Texts]
    \cup {EmptyDict, "text" :> OneLine, "name" :> StyleA}

InitStyles ==
    /\ pc = "edit"
    /\ styles_dir \in StyleDirs
    /\ prompts_dir = None
    /\ request = None
    /\ response = None
    /\ file_system = None
    /\ NoParse
    /\ NoExtract
    /\ NoRun
    /\ NoCall

\* routes.py, lines 265-294 (app.py, lines 255-285)
api_save_style ==
    /\ pc = "edit"
    /\ Cardinality(DOMAIN styles_dir) < MaxFiles
    /\ \E data \in Requests :
           /\ request' = data
           /\ IF ~Has(data, "name") \/ ~Has(data, "text")
              THEN /\ response' = Response(400, ErrorBody("Missing name or text"))
                   /\ UNCHANGED styles_dir
              ELSE IF Strip(data.name) = <<>>
              THEN /\ response' = Response(400, ErrorBody("Style name cannot be empty"))
                   /\ UNCHANGED styles_dir
              ELSE SaveStyleAs(
                       CandidateName(
                           normalize_prompt_name(Strip(data.name)),
                           FreeCounter(normalize_prompt_name(Strip(data.name)), 0, styles_dir)),
                       data.text)
    /\ UNCHANGED <<pc, parseVars, extractVars, runVars, callVars, prompts_dir, file_system>>

NextStyles == api_save_style

SpecStyles == InitStyles /\ [][NextStyles]_vars

\* the request asks for a style to be saved
Saves(data) == Has(data, "name") /\ Has(data, "text") /\ Strip(data.name) # <<>>

\* the name in use neither as it is nor with any smaller number
SmallestFree(name, base_name, dir) ==
    /\ ~Has(dir, name)
    /\ \/ name = base_name
       \/ /\ Has(dir, base_name)
          /\ \E k \in 1..(MaxFiles + 1) :
                 /\ name = base_name \o <<"_">> \o FormatNat(k)
                 /\ \A j \in 1..(k - 1) : Has(dir, base_name \o <<"_">> \o FormatNat(j))

\* C18: a save-style request leaves every style file there is as it is; it
\* writes its text (line ends as write_prompt stores them) under the base
\* name, or under base_k for the least k >= 1 not in use, a name that was
\* not in use, and reports that name.
C18_SaveStyleKeepsFiles ==
    [][/\ \A stem \in DOMAIN styles_dir :
              Has(styles_dir', stem) /\ styles_dir'[stem] = styles_dir[stem]
       /\ Saves(request')
            => /\ response'.status = 200
               /\ SmallestFree(response'.body.saved_name,
                               normalize_prompt_name(request'.name), styles_dir)
               /\ styles_dir' = Put(styles_dir, response'.body.saved_name,
                                    NormalizeNewlines(request'.text))
       /\ ~Saves(request') => response'.status = 400 /\ styles_dir' = styles_dir]_vars

\* the test's case: "a" is there, and a request for "a" was saved as "a_1"
C18_Witness ==
    /\ pc = "edit"
    /\ request = [name |-> StyleA, text |-> OneLine]
    /\ response = Response(200, [success |-> TRUE, saved_name |-> <<"a", "_", "1">>])
    /\ Has(styles_dir, StyleA) /\ styles_dir[StyleA] = OldText
    /\ styles_dir[<<"a", "_", "1">>] = OneLine

-----------------------------------------------------------------------------
(* next_copy_name (services/prompts.py, lines 40-48) *)

CopySuffix == <<"_", "c", "o", "p", "y">>

EndsWith(s, suffix) ==
    Len(s) >= Len(suffix) /\ SubSeq(s, Len(s) - Len(suffix) + 1, Len(s)) = suffix

\* the digits a text ends with
RECURSIVE TrailingDigits(_)
TrailingDigits(s) ==
    IF s # <<>> /\ IsDigit(s[Len(s)])
    THEN TrailingDigits(SubSeq(s, 1, Len(s) - 1)) \o <<s[Len(s)]>>
    ELSE <<>>

\* "." of the pattern: any character but a line break
OneLineText(s) == \A i \in 1..Len(s) : s[i] # "\n"

\* re.fullmatch(r"(.+)_copy(\d+)?", prompt_name), given the digits the name
\* ends with and what stands before them: group 1 has a character at least
CopyMatch(before, number) ==
    IF EndsWith(before, CopySuffix) /\ Len(before) > Len(CopySuffix)
       /\ OneLineText(SubSeq(before, 1, Len(before) - Len(CopySuffix)))
    THEN [matched |-> TRUE, base |-> SubSeq(before, 1, Len(before) - Len(CopySuffix)),
          number |-> number]
    ELSE [matched |-> FALSE, base |-> <<>>, number |-> <<>>]

\* the mutant of CopyNumber: the number of line 47 is not raised
CopyNumberKept(number) == IF number = <<>> THEN <<"2">> ELSE number

\* lines 45-47: "2", or int(number) + 1
CopyNumber(number) ==
    IF number = <<>> THEN <<"2">> ELSE FormatNat(DigitsValue(number) + 1)

\* lines 42-48, given the match
NameAfter(match, prompt_name) ==
    IF match.matched THEN match.base \o CopySuffix \o CopyNumber(match.number)
    ELSE prompt_name \o CopySuffix

BeforeDigits(prompt_name, number) == SubSeq(prompt_name, 1, Len(prompt_name) - Len(number))

next_copy_name(prompt_name) ==
    NameAfter(CopyMatch(BeforeDigits(prompt_name, TrailingDigits(prompt_name)),
                        TrailingDigits(prompt_name)),
              prompt_name)

MaxPieces == 3
MaxCopies == 3
Pieces == {<<"a">>, CopySuffix, <<"_">>, <<"0">>, <<"1">>, <<"9">>, <<"\n">>}

RECURSIVE Flatten(_)
Flatten(pieces) == IF pieces = <<>> THEN <<>> ELSE Head(pieces) \o Flatten(Tail(pieces))

\* the names: at most MaxPieces pieces in a row
PromptNames == {Flatten(pieces) : pieces \in UNION {[1..n -> Pieces] : n \in 0..MaxPieces}}

InitCopyName ==
    /\ pc = "copy"
    /\ call_args \in PromptNames
    /\ call_result = <<call_args>>
    /\ NoParse
    /\ NoExtract
    /\ NoRun
    /\ NoEdit

\* next_copy_name applied to what it returned last; call_result is the
\* names so far, the first one first
NextCopyName ==
    /\ pc = "copy"
    /\ Len(call_result) <= MaxCopies
    /\ call_result' = Append(call_result, next_copy_name(call_result[Len(call_result)]))
    /\ UNCHANGED <<pc, call_args, parseVars, extractVars, runVars, editVars>>

NextCopy == NextCopyName

SpecCopyName == InitCopyName /\ [][NextCopy]_vars

\* the number a name ends with, and the name up to it
EndsInCopy(name) == EndsWith(name, CopySuffix)
EndsInCopyN(name) ==
    TrailingDigits(name) # <<>> /\ EndsWith(BeforeDigits(name, TrailingDigits(name)), CopySuffix)
\* what stands before _copy or _copyN
StemBeforeCopy(name) ==
    SubSeq(name, 1, Len(name) - Len(TrailingDigits(name)) - Len(CopySuffix))
NoRepeat(names) == \A i, j \in 1..Len(names) : i # j => names[i] # names[j]

\* C19 as stated: a name ending in _copy gets "2" appended, a name ending
\* in _copyN becomes _copy(N+1), any other name gets _copy appended; the
\* result differs from a non-empty name, and no name comes twice.
C19_CopyNameOfEverySuffix ==
    /\ NoRepeat(call_result)
    /\ \A i \in 1..(Len(call_result) - 1) :
           /\ call_result[i] # <<>> => call_result[i + 1] # call_result[i]
           /\ call_result[i + 1] =
                  IF EndsInCopy(call_result[i]) THEN call_result[i] \o <<"2">>
                  ELSE IF EndsInCopyN(call_result[i])
                  THEN StemBeforeCopy(call_result[i]) \o CopySuffix
                           \o FormatNat(DigitsValue(TrailingDigits(call_result[i])) + 1)
                  ELSE call_result[i] \o CopySuffix

\* a stem that group 1 of the pattern takes: not empty, no line break
ProperStem(stem) == stem # <<>> /\ OneLineText(stem)

\* C19, amended: the same for _copy and _copyN after a stem that is not
\* empty and has no line break in it; every other name, "_copy" and
\* "_copy7" among them, gets _copy appended.
C19_CopyNameAfterStem ==
    /\ NoRepeat(call_result)
    /\ \A i \in 1..(Len(call_result) - 1) :
           /\ call_result[i + 1] # call_result[i]
           /\ call_result[i + 1] =
                  IF EndsInCopy(call_result[i]) /\ ProperStem(StemBeforeCopy(call_result[i]))
                  THEN call_result[i] \o <<"2">>
                  ELSE IF EndsInCopyN(call_result[i])
                          /\ ProperStem(StemBeforeCopy(call_result[i]))
                  THEN StemBeforeCopy(call_result[i]) \o CopySuffix
                           \o FormatNat(DigitsValue(TrailingDigits(call_result[i])) + 1)
                  ELSE call_result[i] \o CopySuffix

\* a_copy9, a_copy10, a_copy11
C19_Witness ==
    /\ pc = "copy"
    /\ call_args = <<"a">> \o CopySuffix \o <<"9">>
    /\ Len(call_result) = 3
    /\ call_result[2] = <<"a">> \o CopySuffix \o <<"1", "0">>
    /\ call_result[3] = <<"a">> \o CopySuffix \o <<"1", "1">>

-----------------------------------------------------------------------------
(* The duplicate-prompt endpoint *)

\* prompt_path: the stem of the file a prompt name stands for
prompt_path(prompt_name) == normalize_prompt_name(prompt_name)

ACopy == StyleA \o CopySuffix
PromptDirs == {EmptyDict, (StyleA :> OldText) @@ (ACopy :> OldText)}
DuplicateNames ==
    {StyleA, <<" ", "a", " ">>, ACopy, ACopy \o <<"2">>, <<"d", "/", "a">>,
     <<"a", ".", "t", "x", "t">>, CopySuffix, <<>>, <<" ">>}
DuplicateRequests ==
    [name : DuplicateNames, text : Texts]
    \cup {EmptyDict, "text" :> OneLine, "name" :> StyleA}

InitDuplicate ==
    /\ pc = "edit"
    /\ prompts_dir \in PromptDirs
    /\ styles_dir = None
    /\ request = None
    /\ response = None
    /\ file_system = None
    /\ NoParse
    /\ NoExtract
    /\ NoRun
    /\ NoCall

\* lines 383-392, given duplicate_name
DuplicateAs(duplicate_name, text) ==
    /\ prompts_dir' = write_prompt(prompts_dir, prompt_path(duplicate_name), text)
    /\ response' = Response(200, [success |-> TRUE, duplicated_name |-> duplicate_name])

\* routes.py, lines 370-392 (app.py, lines 357-380)
api_duplicate_prompt ==
    /\ pc = "edit"
    /\ Cardinality(DOMAIN prompts_dir) < MaxFiles
    /\ \E data \in DuplicateRequests :
           /\ request' = data
           /\ IF ~Has(data, "name") \/ ~Has(data, "text")
              THEN /\ response' = Response(400, ErrorBody("Missing name or text"))
                   /\ UNCHANGED prompts_dir
              ELSE IF Strip(data.name) = <<>>
              THEN /\ response' = Response(400, ErrorBody("Prompt name cannot be empty"))
                   /\ UNCHANGED prompts_dir
              ELSE DuplicateAs(next_copy_name(Strip(data.name)), data.text)
    /\ UNCHANGED <<pc, parseVars, extractVars, runVars, callVars, styles_dir, file_system>>

NextDuplicate == api_duplicate_prompt

SpecDuplicate == InitDuplicate /\ [][NextDuplicate]_vars

\* C20: a duplicate-prompt request writes its text (line ends as
\* write_prompt stores them) to the prompt named next_copy_name(name), name
\* being the name without the blanks around it, and reports that name,
\* whether or not that prompt is there already; what was in it is replaced.
C20_DuplicateWritesCopyName ==
    [][Saves(request')
           => /\ response' = Response(200, [success |-> TRUE,
                                            duplicated_name |->
                                                next_copy_name(Strip(request'.name))])
              /\ Has(prompts_dir', prompt_path(next_copy_name(Strip(request'.name))))
              /\ prompts_dir'[prompt_path(next_copy_name(Strip(request'.name)))]
                     = NormalizeNewlines(request'.text)]_vars

\* the test's case: "a" and "a_copy" were there, and duplicating "a" has
\* replaced what "a_copy" held
C20_Witness ==
    /\ pc = "edit"
    /\ prompts_dir # None /\ Has(prompts_dir, StyleA)
    /\ request = [name |-> StyleA, text |-> OneLine]
    /\ response = Response(200, [success |-> TRUE, duplicated_name |-> ACopy])
    /\ prompts_dir[ACopy] = OneLine

----------------------------------------------------------------------------
(* The redaction step of _apply_exif_metadata (imagegen.py:299-336) on its *)
(* own: it is applied to a parameter mapping, and again to what it gave.   *)

PlainUrl == <<"a", ".", "p", "n", "g">>
\* the values a resource parameter may hold: a bare name, and a name under
\* each of the two configured bases
UrlValues ==
    {Str(PlainUrl), Str(SourceBase \o PlainUrl), Str(SafetensorsBase \o PlainUrl)}
LoraValues ==
    UrlValues \cup {Lora(u.s, Float10(10)) : u \in UrlValues}

MaxEntries == 2
UrlListValues == {List(items) : items \in UNION {[1..n -> UrlValues] : n \in 0..MaxEntries}}
LoraListValues == {List(items) : items \in UNION {[1..n -> LoraValues] : n \in 0..1}}

\* a parameter mapping: a prompt, and any of file, image_url, image_urls, loras
Optional(key, values) == {EmptyDict} \cup {key :> v : v \in values}
ParamMappings ==
    {("prompt" :> Str(PromptHi)) @@ f @@ u @@ l @@ r :
        f \in Optional("file", {Str(CatsPath)}),
        u \in Optional("image_url", UrlValues),
        l \in Optional("image_urls", UrlListValues),
        r \in Optional("loras", LoraListValues)}

InitRedact ==
    /\ pc = "redact"
    /\ call_args \in [params : ParamMappings, environ : Environments]
    /\ call_result = <<>>
    /\ NoParse
    /\ NoExtract
    /\ NoRun
    /\ NoEdit

\* lines 299-336, on the parameters first and then on its own output
Redact ==
    /\ pc = "redact"
    /\ Len(call_result) < 2
    /\ call_result' =
           Append(call_result,
                  RedactedArguments(IF call_result = <<>> THEN call_args.params
                                    ELSE call_result[Len(call_result)],
                                    call_args.environ))
    /\ UNCHANGED <<pc, call_args, parseVars, extractVars, runVars, editVars>>

NextRedact == Redact

SpecRedact == InitRedact /\ [][NextRedact]_vars

\* the strings a parameter mapping holds
ParamStrings(params) == UNION {StringsIn(params[k]) : k \in DOMAIN params}

\* no 'file' entry and no value that starts with a configured base URL
AlreadyRedacted(params, environ) ==
    /\ ~Has(params, "file")
    /\ \A s \in ParamStrings(params) :
           /\ ~StartsWith(s, environ.SOURCE_IMAGE_URL)
           /\ ~StartsWith(s, environ.SAFETENSORS_URL)

\* C21: for a parameter mapping with no 'file' entry and no value starting
\* with a configured base URL, the arguments of the description equal the
\* mapping, and redacting them again gives the same arguments.
C21_RedactionIdempotent ==
    (pc = "redact" /\ AlreadyRedacted(call_args.params, call_args.environ)) =>
        /\ Len(call_result) >= 1 => call_result[1] = call_args.params
        /\ Len(call_result) >= 2 => call_result[2] = call_result[1]

C21_Witness ==
    /\ pc = "redact"
    /\ Len(call_result) = 2
    /\ AlreadyRedacted(call_args.params, call_args.environ)
    /\ Has(call_args.params, "image_url")
    /\ Has(call_args.params, "image_urls")
    /\ Has(call_args.params, "loras")
    /\ Len(call_args.params["image_urls"].items) = MaxEntries
    /\ Len(call_args.params["loras"].items) = 1
    /\ call_args.params["loras"].items[1].t = "lora"

----------------------------------------------------------------------------
(* _coerce_payload (imagegen.py:128-146) on chains of wrapper objects:     *)
(* each wrapper has one zero-argument accessor, which returns the next     *)
(* wrapper or, at the end, a mapping.                                      *)

MaxChain == 3

AccessorNames == {accessor_methods[i] : i \in 1..Len(accessor_methods)}
AccessorChains == UNION {[1..n -> AccessorNames] : n \in 0..MaxChain}

\* the object whose accessors names[i], names[i+1], ... lead to ending
RECURSIVE ChainFrom(_, _, _)
ChainFrom(names, i, ending) ==
    IF i > Len(names) THEN ending
    ELSE Object(names[i] :> Returns(ChainFrom(names, i + 1, ending)))

Chain(names, ending) == ChainFrom(names, 1, ending)

ChainEndings ==
    {ResponseOf(<<PngOne>>), Map(<<[key |-> "detail", val |-> Str(NotUrl)]>>)}

InitCoerce ==
    /\ pc = "coerce"
    /\ call_args \in [names : AccessorChains, ending : ChainEndings]
    /\ call_result = None
    /\ NoParse
    /\ NoExtract
    /\ NoRun
    /\ NoEdit

CoercePayload ==
    /\ pc = "coerce"
    /\ call_result' = _coerce_payload(Chain(call_args.names, call_args.ending))
    /\ pc' = "coerced"
    /\ UNCHANGED <<call_args, parseVars, extractVars, runVars, editVars>>

NextCoerce == CoercePayload

SpecCoerce == InitCoerce /\ [][NextCoerce]_vars

\* C22: for every chain of wrapper objects, of any length and with any
\* accessor names among get, result, value and json, that ends in a mapping,
\* _coerce_payload returns that mapping.
C22_EveryChainUnwrapped ==
    pc = "coerced" => call_result = call_args.ending

\* the position of an accessor name in accessor_methods
AccessorIndex(name) == CHOOSE i \in 1..Len(accessor_methods) : accessor_methods[i] = name

\* each accessor of the chain comes later in accessor_methods than the one
\* before it
InLoopOrder(names) ==
    \A i \in 1..(Len(names) - 1) : AccessorIndex(names[i]) < AccessorIndex(names[i + 1])

\* what the one pass of lines 134-146 does unwrap: the chains whose accessors
\* follow the order of accessor_methods, and no other chain
ChainUnwrappedIffInLoopOrder ==
    pc = "coerced" => (call_result = call_args.ending <=> InLoopOrder(call_args.names))

----------------------------------------------------------------------------
(* A failure inside the loop of generate_images (imagegen.py:107-123) *)

\* the loop was entered and something in it raised
FailedInLoop == pc \in {"raised", "failed"} /\ extracted # <<>>

\* the j-th written path still names a file, and it holds the bytes of the
\* j-th URL, whole
HoldsItsDownload(j) ==
    /\ Has(output_dir.files, written[j])
    /\ output_dir.files[written[j]].data = extracted[j]

\* the caller got no path: the web result lists none, the command line
\* printed none and ended with exit code 1
NoPathsReturned ==
    IF entry_point = "cli"
    THEN /\ result = Exit(1, <<"error">>)
         /\ \A i \in 1..Len(stdout) : \A j \in 1..Len(written) : stdout[i] # written[j]
    ELSE result = WebResult("error", <<>>, None)

\* no retry and no further download: the failing turn was the last one
FailingTurnWasLast == downloads = Len(written) + 1

\* C23: when downloading or writing the k-th image fails, generate_images
\* raises at once (the k-th download attempt is the last one), the k-1 files
\* already written are still on disk with their content, and the caller gets
\* no path list.
C23_FailureKeepsWrittenFiles ==
    FailedInLoop =>
        /\ FailingTurnWasLast
        /\ \A j \in 1..Len(written) : HoldsItsDownload(j)
        /\ pc = "failed" => NoPathsReturned

\* the same without the files: what holds of every failure in the loop
FailureStopsTheBatch ==
    FailedInLoop =>
        /\ FailingTurnWasLast
        /\ pc = "failed" => NoPathsReturned

\* a failed turn changes no file but the one at the path it was writing
FailedTurnTouchesOnlyItsPath ==
    [][(pc = "download" /\ pc' = "raised") =>
           \A name \in DOMAIN output_dir.files :
               \/ /\ Has(output_dir'.files, name)
                  /\ output_dir'.files[name] = output_dir.files[name]
               \/ \E content_type \in ContentTypes :
                      name = Destination(parsed.value, timestamp,
                                         extracted[Len(written) + 1], content_type)]_vars

----------------------------------------------------------------------------
(* The prompt slug of a derived file name (imagegen.py:82-101): prompts of *)
(* up to MaxWords words, alone and after the base name of a prompt file.   *)

MaxWords == 7

ShortWord == <<"a", "b", "c">>
MiddleWord == <<"d", "e", "f", "g", "h", "i", "j">>
LongWord == <<"k", "l", "m", "n", "o", "p", "q", "r", "s", "t">>
PromptWords == {ShortWord, MiddleWord, LongWord}
WordLists == UNION {[1..n -> PromptWords] : n \in 1..MaxWords}

\* the words with sep between them
RECURSIVE JoinWords(_, _)
JoinWords(words, sep) ==
    IF words = <<>> THEN <<>>
    ELSE IF Len(words) = 1 THEN words[1]
    ELSE words[1] \o sep \o JoinWords(Tail(words), sep)

\* the prompt the words spell
PromptOf(words) == JoinWords(words, <<" ">>)

InitSlug ==
    /\ pc = "slug"
    /\ call_args \in [words : WordLists, prompt_name : {None, Str(<<"c", "a", "t", "s">>)}]
    /\ call_result = None
    /\ NoParse
    /\ NoExtract
    /\ NoRun
    /\ NoEdit

\* lines 90-105 for a prompt and the stem of a prompt file, if any
BuildBaseComponent ==
    /\ pc = "slug"
    /\ call_result' = Str(BaseComponent(call_args.prompt_name,
                                        Strip(PromptOf(call_args.words)),
                                        ModelChars["dev"]))
    /\ pc' = "slug_done"
    /\ UNCHANGED <<call_args, parseVars, extractVars, runVars, editVars>>

NextSlug == BuildBaseComponent

SpecSlug == InitSlug /\ [][NextSlug]_vars

\* the part of the base component that comes from the prompt text
SlugIn(base, prompt_name) ==
    IF prompt_name = None THEN base
    ELSE DropPrefix(base, Len(_sanitize_component(prompt_name.s)) + 1)

\* slug is the first m words of the prompt, for some m
WholeWordsOf(slug, words) ==
    \E m \in 0..Len(words) : slug = JoinWords(SubSeq(words, 1, m), <<"-">>)

\* C24: the slug of the prompt text in a derived file name has at most 50
\* characters and never ends inside a word of the prompt, alone and after a
\* prompt-file base name.
C24_SlugEndsAtWordBoundary ==
    pc = "slug_done" =>
        /\ Len(SlugIn(call_result.s, call_args.prompt_name)) <= MaxChars
        /\ WholeWordsOf(SlugIn(call_result.s, call_args.prompt_name), call_args.words)

\* what the code does give: at most 50 characters, the first 50 of the
\* sanitized prompt
SlugIsFirstMaxChars ==
    pc = "slug_done" =>
        SlugIn(call_result.s, call_args.prompt_name)
            = SubSeq(JoinWords(call_args.words, <<"-">>), 1,
                     IF Len(PromptOf(call_args.words)) <= MaxChars
                     THEN Len(PromptOf(call_args.words)) ELSE MaxChars)

----------------------------------------------------------------------------
(* _extract_request_id and _search_first (imagegen.py:149-154, 184-197) on *)
(* nested responses whose mappings hold identifier keys and other keys.    *)

MaxKeys == 2

\* line 150
IdKeys == <<"request_id", "requestId", "id">>
IdKeySet == {IdKeys[i] : i \in 1..Len(IdKeys)}
ResponseKeys == IdKeySet \cup {"data"}

TokenX == <<"x">>
TokenY == <<"y">>
IdLeaves == {Str(TokenX), Str(TokenY), Num(7)}

\* the mappings of n entries with distinct keys and values among vals
MapsOver(n, vals) ==
    {Map([i \in 1..n |-> [key |-> ks[i], val |-> vs[i]]]) :
        ks \in {s \in [1..n -> ResponseKeys] : \A i, j \in 1..n : i # j => s[i] # s[j]},
        vs \in [1..n -> vals]}

InnerValues == IdLeaves \cup MapsOver(1, IdLeaves)

IdPayloads ==
    UNION {MapsOver(n, InnerValues) : n \in 1..MaxKeys}
    \cup UNION {{List(items) : items \in [1..n -> InnerValues]} : n \in 1..MaxKeys}

\* the index of the first entry of a mapping with this key, or 0
FirstKeyIndex(items, key) ==
    IF \E i \in 1..Len(items) : items[i].key = key
    THEN CHOOSE i \in 1..Len(items) :
             items[i].key = key /\ \A k \in 1..(i - 1) : items[k].key # key
    ELSE 0

\* _search_first, lines 186-197: the while loop on a stack
RECURSIVE SearchLoop(_, _)
SearchLoop(stack, key) ==
    IF stack = <<>> THEN None
    ELSE IF IsMapping(stack[Len(stack)])
    THEN IF FirstKeyIndex(stack[Len(stack)].items, key) # 0
         THEN stack[Len(stack)].items[FirstKeyIndex(stack[Len(stack)].items, key)].val
         ELSE SearchLoop(SubSeq(stack, 1, Len(stack) - 1) \o Values(stack[Len(stack)]), key)
    ELSE IF IsPlainSequence(stack[Len(stack)])
    THEN SearchLoop(SubSeq(stack, 1, Len(stack) - 1) \o stack[Len(stack)].items, key)
    ELSE SearchLoop(SubSeq(stack, 1, Len(stack) - 1), key)

_search_first(value, key) == SearchLoop(<<value>>, key)

\* lines 150-154 from the i-th key on
RECURSIVE RequestIdFrom(_, _)
RequestIdFrom(value, i) ==
    IF i > Len(IdKeys) THEN None
    ELSE IF _search_first(value, IdKeys[i]).t = "str" THEN _search_first(value, IdKeys[i])
    ELSE RequestIdFrom(value, i + 1)

_extract_request_id(value) == RequestIdFrom(value, 1)

InitRequestId ==
    /\ pc = "request_id"
    /\ payload \in IdPayloads
    /\ extracted = <<>>
    /\ NoParse
    /\ NoRun
    /\ NoCall
    /\ NoEdit

ExtractRequestId ==
    /\ pc = "request_id"
    /\ extracted' = <<_extract_request_id(payload)>>
    /\ pc' = "request_id_done"
    /\ UNCHANGED <<payload, parseVars, runVars, callVars, editVars>>

NextRequestId == ExtractRequestId

SpecRequestId == InitRequestId /\ [][NextRequestId]_vars

\* the values of the entries with an identifier key, in top-to-bottom
\* document order: an entry comes before the entries inside its value, and
\* both before the entries that follow it
RECURSIVE IdEntryValues(_)
RECURSIVE IdEntryValuesOfItems(_)
IdEntryValuesOfItems(items) ==
    IF items = <<>> THEN <<>>
    ELSE (IF items[1].key \in IdKeySet THEN <<items[1].val>> ELSE <<>>)
         \o IdEntryValues(items[1].val)
         \o IdEntryValuesOfItems(Tail(items))
IdEntryValues(value) ==
    IF IsMapping(value) THEN IdEntryValuesOfItems(value.items)
    ELSE IF IsPlainSequence(value) /\ value.items # <<>>
    THEN IdEntryValues(value.items[1]) \o IdEntryValues(List(Tail(value.items)))
    ELSE <<>>

\* C25: _extract_request_id returns the value of the first mapping entry, in
\* top-to-bottom document order over the whole response, whose key is
\* request_id, requestId or id, and None only when there is no such entry.
C25_FirstIdentifierInDocumentOrder ==
    pc = "request_id_done" =>
        extracted[1] = IF IdEntryValues(payload) = <<>> THEN None
                       ELSE IdEntryValues(payload)[1]

\* what does hold: the result is None or the string value of some entry with
\* an identifier key, and it is None when there is no such entry
RequestIdIsSomeIdentifier ==
    pc = "request_id_done" =>
        \/ extracted[1] = None
        \/ /\ extracted[1].t = "str"
           /\ \E i \in 1..Len(IdEntryValues(payload)) : IdEntryValues(payload)[i] = extracted[1]

----------------------------------------------------------------------------
(* What _extract_urls collects (imagegen.py:157-165) against the scheme    *)
(* check of _download (imagegen.py:213-219)                                *)

HttpMarker == <<"h", "t", "t", "p", ":", "/", "/">>
HttpsMarker == <<"h", "t", "t", "p", "s", ":", "/", "/">>

\* the string begins, in any letter case, with http:// or https://
BeginsWithSchemeMarker(url) ==
    StartsWith(Lower(url), HttpMarker) \/ StartsWith(Lower(url), HttpsMarker)

\* C26: every URL collected from the response begins, case-insensitively,
\* with http:// or https://, and is accepted by the scheme check of the
\* download step.
C26_CollectedUrlsPassSchemeCheck ==
    pc \in {"download", "returned", "raised", "failed"} =>
        \A i \in 1..Len(extracted) :
            BeginsWithSchemeMarker(extracted[i]) /\ SchemeAllowed(extracted[i])

\* what the test of line 161 does give: the four letters http, in any case
CollectedUrlsBeginWithHttp ==
    pc \in {"download", "returned", "raised", "failed"} =>
        \A i \in 1..Len(extracted) : StartsWith(Lower(extracted[i]), HTTP)

\* the two halves of the claim agree on the URLs of the model: a collected
\* URL passes the scheme check exactly when it begins with a scheme marker
MarkerIffSchemeAllowed ==
    pc \in {"download", "returned", "raised", "failed"} =>
        \A i \in 1..Len(extracted) :
            BeginsWithSchemeMarker(extracted[i]) <=> SchemeAllowed(extracted[i])

----------------------------------------------------------------------------
(* parse_args and the registry it is given (options.py:441-593).  A value  *)
(* of params is either an object the call made or the registry's own       *)
(* default object, stored by line 481 without a copy; the store below      *)
(* keeps the registry and, for each key of params, the option whose        *)
(* default object it holds.                                                *)

MaxCalls == 2

DefaultLora == Lora(SafetensorsBase \o <<"d">> \o SafetensorsSuffix, Float10(10))
\* a registry with list-valued defaults
ListDefaultsRegistry ==
    [MODEL_REGISTRY EXCEPT
        !["krea-lora"].options["loras"].default = List(<<DefaultLora>>),
        !["seedream-edit"].options["image_urls"].default =
            List(<<Str(SourceBase \o PlainUrl)>>)]

Store(registry, model, aliases) == [registry |-> registry, model |-> model, aliases |-> aliases]

\* lines 477-481: params[key] = default, the object of the registry itself
AfterDefaults(registry, model) ==
    Store(registry, model, [k \in DOMAIN SeedDefaults(registry[model].options) |-> k])

\* params[key] = an object made by this call, and params.pop(key)
SetItem(store, key) == [store EXCEPT !.aliases = Pop(@, key)]
\* params[key] = spec.get("default")
SetItemToDefault(store, key) == [store EXCEPT !.aliases = Put(@, key, key)]

\* params[key].extend(items): the list params holds under key is changed in
\* place, and it may be the registry's
ExtendInPlace(store, key, items) ==
    IF Has(store.aliases, key)
    THEN [store EXCEPT
             !.registry[store.model].options[store.aliases[key]].default =
                 List(@.items \o items)]
    ELSE store

\* the list is added to the one params already holds under the key
AssignResourceInPlace(store, key, items) == ExtendInPlace(store, key, items)

\* lines 526, 531 and 536: params[key] = the normalized list
AssignResource(store, key, items) == SetItem(store, key)

\* lines 485-497
StorePrompt(store, ns, option_specs) ==
    IF ~HasPromptOption(option_specs) THEN store
    ELSE IF GetAttr(ns, "prompt") # None THEN SetItem(SetItem(store, "prompt"), "file")
    ELSE IF GetAttr(ns, "file") # None THEN SetItem(SetItem(store, "file"), "prompt")
    ELSE IF option_specs["prompt"].default # None THEN SetItemToDefault(store, "prompt")
    ELSE store

\* lines 499-521, given the params before and after them
StoreSize(store, before, after) ==
    IF Has(after, "image_size") /\ (~Has(before, "image_size")
                                    \/ after["image_size"] # before["image_size"])
    THEN SetItem(store, "image_size") ELSE store

\* lines 523-536
StoreResources(store, ns, option_specs, environ) ==
    LET loras == IF Has(option_specs, "loras") /\ GivenList(GetAttr(ns, "loras"))
                 THEN AssignResource(store, "loras",
                                     _normalize_loras(ns["loras"].items, environ))
                 ELSE store
        image_urls == IF Has(option_specs, "image_urls") /\ GivenList(GetAttr(ns, "image_urls"))
                      THEN AssignResource(loras, "image_urls",
                                          _normalize_image_urls(ns["image_urls"].items, environ))
                      ELSE loras
    IN  IF Has(option_specs, "image_url") /\ GetAttr(ns, "image_url") # None
        THEN SetItem(image_urls, "image_url") ELSE image_urls

\* lines 538-557
StoreOthers(store, ns, option_specs) ==
    [store EXCEPT !.aliases =
        [k \in {x \in DOMAIN @ :
                   x \in SpecialKeys
                   \/ ~(option_specs[x].type = "bool" \/ GetAttr(ns, x) # None)} |-> @[k]]]

\* lines 559-567
StoreSeed(store, ns, option_specs) ==
    IF ~Has(option_specs, "seed") THEN store
    ELSE IF GetAttr(ns, "seed") # None THEN SetItem(store, "seed")
    ELSE IF option_specs["seed"].default = None THEN SetItem(store, "seed")
    ELSE SetItemToDefault(store, "seed")

\* lines 569-570: params["aspect_ratio"] = params.pop("image_size")
StoreAspectRatio(store, params) ==
    IF store.model = "nano-banana" /\ Has(params, "image_size")
    THEN IF Has(store.aliases, "image_size")
         THEN [store EXCEPT !.aliases =
                  Put(Pop(@, "image_size"), "aspect_ratio", @["image_size"])]
         ELSE SetItem(store, "aspect_ratio")
    ELSE store

\* lines 499-570 on the store, given what lines 485-497 and 499-517 gave
StoreAfterDimensions(store, prompt, dims, ns, option_specs, environ) ==
    IF ~dims.ok THEN store
    ELSE StoreAspectRatio(
             StoreSeed(
                 StoreOthers(
                     StoreResources(
                         StoreSize(store, prompt.value,
                                   SizePreset(dims.value.params, ns, option_specs,
                                              dims.value.used_dimensions)),
                         ns, option_specs, environ),
                     ns, option_specs),
                 ns, option_specs),
             SizePreset(dims.value.params, ns, option_specs, dims.value.used_dimensions))

StoreAfterPrompt(store, prompt, ns, option_specs, environ) ==
    IF ~prompt.ok THEN store
    ELSE StoreAfterDimensions(StorePrompt(store, ns, option_specs), prompt,
                              WidthHeight(prompt.value, ns, option_specs),
                              ns, option_specs, environ)

\* the store when parse_args(argv, registry=registry) returns or raises
StoreAfterArgparse(parsedNs, registry, model, environ, files) ==
    IF ~parsedNs.ok THEN Store(registry, model, EmptyDict)
    ELSE StoreAfterPrompt(AfterDefaults(registry, model),
                          ResolvePrompt(SeedDefaults(registry[model].options),
                                        parsedNs.value, registry[model].options, files),
                          parsedNs.value, registry[model].options, environ)

StoreAfterParse(argv, registry, environ, files) ==
    StoreAfterArgparse(ArgparseStage(argv, registry), registry, argv.model, environ, files)

\* the command lines of the calls: six models and an unknown one, without
\* width and height
RegistryCommandLines ==
    {argv \in CommandLines :
        /\ argv.model \in {"krea-lora", "seedream-edit", "nano-banana", "realism",
                         "schnell", "kontext", "bogus"}
        /\ ~Has(argv.opts, "width")
        /\ ~Has(argv.opts, "height")}

\* the registry the calls are given, how many calls were made, and what the
\* last one returned or raised
InitRegistry ==
    /\ pc = "registry"
    /\ call_args = ListDefaultsRegistry
    /\ call_result = [calls |-> 0, returned |-> None, aliases |-> EmptyDict]
    /\ NoParse
    /\ NoExtract
    /\ NoRun
    /\ NoEdit

ParseArgsWithRegistry ==
    /\ pc = "registry"
    /\ call_result.calls < MaxCalls
    /\ \E argv \in RegistryCommandLines, environ \in Environments, rand \in RandomSeeds :
           /\ call_args' = StoreAfterParse(argv, call_args, environ, PromptFiles).registry
           /\ call_result' =
                  [calls |-> call_result.calls + 1,
                   returned |-> parse_args(argv, call_args, environ, PromptFiles, rand),
                   aliases |-> StoreAfterParse(argv, call_args, environ, PromptFiles).aliases]
    /\ UNCHANGED <<pc, parseVars, extractVars, runVars, editVars>>

NextRegistry == ParseArgsWithRegistry

SpecRegistry == InitRegistry /\ [][NextRegistry]_vars

\* C27: after any sequence of parse_args calls, successful or failing, every
\* model definition of the registry (endpoint, call, option specs, defaults,
\* list-valued ones included) equals what it was before the calls.
C27_RegistryUnchanged ==
    pc = "registry" => call_args = ListDefaultsRegistry

\* two calls were made, the last one returned, on a model with a list-valued
\* default and with a list given on the command line in its place
C27_Witness ==
    /\ pc = "registry"
    /\ call_result.calls = MaxCalls
    /\ call_result.returned.ok
    /\ call_result.returned.value.model = "krea-lora"
    /\ call_result.returned.value.params["loras"] # List(<<DefaultLora>>)

\* some call returns, under a key of params, the list object of the registry
\* itself
ReturnsRegistryList ==
    /\ pc = "registry"
    /\ call_result.calls > 0
    /\ call_result.returned.ok
    /\ Has(call_result.aliases, "loras")

----------------------------------------------------------------------------
(* The description tag: written by set_exif_data (imagegen/exif.py:97-106) *)
(* and read by parse_exif_description (image_common/exif.py:30-59).  A     *)
(* text is a sequence of pieces: literal pieces, and the JSON text that    *)
(* json.dumps gave for a mapping, which begins with "{" and which          *)
(* json.loads turns back into the mapping.                                 *)

Lit(s) == [t |-> "lit", s |-> s]
Blank == Lit(" ")
ModelMark == Lit("Model:")
PromptMark == Lit("Prompt:")

\* exif.py lines 97-106: d = f"Model: {model} " + f"Prompt: {description} ";
\* the JSON text holds no line break for replace to change
ImageDescription(description, model) ==
    IF description = None THEN None
    ELSE (IF model # "" THEN <<ModelMark, Blank, Lit(model), Blank>> ELSE <<>>)
         \o <<PromptMark, Blank, description, Blank>>

RECURSIVE LStripBlanks(_)
LStripBlanks(text) ==
    IF text # <<>> /\ Head(text) = Blank THEN LStripBlanks(Tail(text)) ELSE text
\* str.strip() on a text
StripBlanks(text) == Reverse(LStripBlanks(Reverse(LStripBlanks(text))))

\* str.find(mark): the 1-based position of the first mark, or 0
Find(text, mark) ==
    IF \E i \in 1..Len(text) : text[i] = mark
    THEN CHOOSE i \in 1..Len(text) : text[i] = mark /\ \A k \in 1..(i - 1) : text[k] # mark
    ELSE 0

\* dict.get(key)
Get(d, key) == IF Has(d, key) THEN d[key] ELSE None

\* lines 33-34: trimmed.startswith("{") and json.loads(trimmed) returns
JsonLoads(trimmed) ==
    IF Len(trimmed) = 1 /\ trimmed[1].t = "json" THEN Success(trimmed[1].data)
    ELSE Failure("JSONDecodeError", "not a JSON text")

\* lines 36-42
FromJson(data) ==
    ("model" :> Get(data, "model") @@ "style" :> Get(data, "style_name")
         @@ "prompt_name" :> Get(data, "prompt_name"))
    @@ (IF ~Has(data, "arguments") THEN "prompt" :> None
        ELSE IF data["arguments"].t = "dict"
        THEN "prompt" :> Get(data["arguments"].d, "prompt")
        ELSE EmptyDict)

\* a piece of the text as the reader returns it
Text(pieces) == [t |-> "text", pieces |-> pieces]

\* lines 50-58, given prompt_index and model_index
Sliced(text, prompt_index, model_index) ==
    "prompt" :> Text(StripBlanks(SubSeq(text, prompt_index + 1, Len(text))))
    @@ "model" :> (IF 0 < model_index /\ model_index < prompt_index
                   THEN Text(StripBlanks(SubSeq(text, model_index + 1, prompt_index - 1)))
                   ELSE None)

\* lines 46-58
FromLegacy(text) ==
    IF Find(text, PromptMark) = 0 THEN EmptyDict
    ELSE Sliced(text, Find(text, PromptMark), Find(text, ModelMark))

parse_exif_description(text) ==
    IF JsonLoads(StripBlanks(text)).ok THEN FromJson(JsonLoads(StripBlanks(text)).value)
    ELSE FromLegacy(text)

\* what the reader gives for the tag of the i-th call of set_exif_data
ReadBack(i) ==
    parse_exif_description(ImageDescription(exif_calls[i].description, exif_calls[i].model))

\* the value is this string, as JSON gives it or as a slice of the text
IsString(value, json, chars) == value = json \/ value = Text(<<Lit(chars)>>)

\* C28: for a request with metadata embedding on, the reader applied to the
\* ImageDescription text the writer produced yields the request's model name
\* as 'model' and the request's prompt text as 'prompt'.
C28_DescriptionRoundTrip ==
    \A i \in 1..Len(exif_calls) :
        exif_calls[i].description # None =>
            /\ Has(ReadBack(i), "model") /\ Has(ReadBack(i), "prompt")
            /\ IsString(ReadBack(i)["model"], Name(parsed.value.model), parsed.value.model)
            /\ IsString(ReadBack(i)["prompt"], Params["prompt"], Params["prompt"].s)

\* what the reader does give: the model name, and the whole JSON text as
\* the prompt
ReadsJsonAsPrompt ==
    \A i \in 1..Len(exif_calls) :
        exif_calls[i].description # None =>
            /\ ReadBack(i)["model"] = Text(<<Lit(parsed.value.model)>>)
            /\ ReadBack(i)["prompt"] = Text(<<exif_calls[i].description>>)

\* the reader on the description by itself, without the Model:/Prompt:
\* wrapping, gives the prompt text
BareDescriptionGivesPrompt ==
    \A i \in 1..Len(exif_calls) :
        exif_calls[i].description # None =>
            parse_exif_description(<<exif_calls[i].description>>)["prompt"] = Params["prompt"]

\* ---------------------------------------------------------------------------
\* The asset_delete action of the editor's index page
\* (imageedit/routes.py:101-119, imageedit/app.py:87-95,
\*  imageedit/services/assets.py:30-40).
\*
\* A path is the sequence of its components below the root; the working
\* directory is /w and ASSETS_DIR is /w/assets.  file_system is the set of the
\* files; the directories are fixed.  There are no symbolic links, so
\* Path.resolve() is the removal of the ".." segments.

MaxSegments == 3

WorkDir == <<"w">>
AssetsDir == <<"w", "assets">>
CleanDir == <<"w", "assets_clean">>
Directories == {<<>>, WorkDir, AssetsDir, CleanDir, AssetsDir \o <<"sub">>}

AssetFile == AssetsDir \o <<"a.jpg">>
NestedAssetFile == AssetsDir \o <<"sub", "a.jpg">>
CleanCopy == CleanDir \o <<"a.jpg">>
AssetFileSystems == SUBSET {AssetFile, NestedAssetFile, CleanCopy}

Segments == {"a.jpg", "..", "sub", "w", "assets", "assets_clean"}
SegmentLists == UNION {[1..n -> Segments] : n \in 0..MaxSegments}
\* the form field asset_filename, stripped: "" is the relative name without parts
AssetFilenames == [absolute : BOOLEAN, parts : SegmentLists]
CleanCopySettings == {"", "1", "off", "maybe"}

PathAt(parts) == [t |-> "path", parts |-> parts]
Parent(parts) == IF parts = <<>> THEN parts ELSE SubSeq(parts, 1, Len(parts) - 1)

\* Path.resolve() of base / parts
RECURSIVE Resolve(_, _)
Resolve(base, parts) ==
    IF parts = <<>>
    THEN base
    ELSE Resolve(IF parts[1] = ".." THEN Parent(base) ELSE Append(base, parts[1]),
                 Tail(parts))

\* assets_dir / filename: an absolute filename replaces assets_dir
Joined(assets_dir, filename) ==
    Resolve(IF filename.absolute THEN <<>> ELSE assets_dir, filename.parts)

\* assets.py:30-40 without the relative_to check
ResolveAnywhere(assets_dir, filename) ==
    IF ~filename.absolute /\ filename.parts = <<>>
    THEN None
    ELSE PathAt(Joined(assets_dir, filename))

\* assets.py:30-40 and app.py:558-568
resolve_asset_path(assets_dir, filename) ==
    IF ~filename.absolute /\ filename.parts = <<>>
    THEN None
    ELSE IF StartsWith(Joined(assets_dir, filename), assets_dir)
         THEN PathAt(Joined(assets_dir, filename))
         ELSE None

PathExists(files, parts) == parts \in files \/ parts \in Directories

\* image_common/env.py:8-12 and 15-25
save_clean_copy_enabled(value) ==
    IF value = "" THEN Returns(Bool(FALSE))
    ELSE IF value \in {"1", "true", "yes", "on"} THEN Returns(Bool(TRUE))
    ELSE IF value \in {"0", "false", "no", "off"} THEN Returns(Bool(FALSE))
    ELSE NeedsArgument

\* routes.py:110-117: the copy of the same name in <assets_dir>_clean
CleanPath(asset_path) == CleanDir \o <<LastComponent(asset_path.parts)>>

AfterCleanCopy(files, asset_path, clean_copies) ==
    IF clean_copies.value = Bool(TRUE) THEN files \ {CleanPath(asset_path)} ELSE files

PageOf(status, error_message, status_message) ==
    [status |-> status, error_message |-> error_message, status_message |-> status_message]

NotFoundPage == PageOf(200, Str("Asset file not found."), None)
DeletedPage(asset_filename) ==
    PageOf(200, None, [t |-> "deleted", asset_filename |-> asset_filename])
ServerError == PageOf(500, None, None)

Handled(files, page) == [files |-> files, page |-> page]

\* the branch of index for action = "asset_delete"; with_clean_copy tells
\* routes.py (TRUE) from app.py (FALSE)
AssetDeleteAt(files, asset_path, asset_filename, setting, with_clean_copy) ==
    IF asset_path = None
    THEN Handled(files, NotFoundPage)
    ELSE IF ~PathExists(files, asset_path.parts)
    THEN Handled(files, NotFoundPage)
    ELSE IF asset_path.parts \in Directories
    THEN Handled(files, ServerError)
    ELSE IF ~with_clean_copy
    THEN Handled(files \ {asset_path.parts}, DeletedPage(asset_filename))
    ELSE IF save_clean_copy_enabled(setting).raises
    THEN Handled(files \ {asset_path.parts}, ServerError)
    ELSE Handled(AfterCleanCopy(files \ {asset_path.parts}, asset_path,
                                save_clean_copy_enabled(setting)),
                 DeletedPage(asset_filename))

AssetDelete(files, asset_filename, setting, with_clean_copy) ==
    AssetDeleteAt(files, resolve_asset_path(AssetsDir, asset_filename), asset_filename,
                  setting, with_clean_copy)

InitAssets ==
    /\ pc = "edit"
    /\ file_system \in AssetFileSystems
    /\ os_environ \in [SAVE_CLEAN_COPY : CleanCopySettings]
    /\ sys_argv = None /\ prompt_files = None /\ parsed = None
    /\ styles_dir = None /\ prompts_dir = None
    /\ request = None
    /\ response = None
    /\ NoExtract
    /\ NoRun
    /\ NoCall

FormOf(handler, asset_filename) ==
    [handler |-> handler, action |-> "asset_delete", asset_filename |-> asset_filename]

\* POST / of imageedit/routes.py
index ==
    /\ pc = "edit"
    /\ \E asset_filename \in AssetFilenames :
           /\ request' = FormOf("routes", asset_filename)
           /\ file_system' = AssetDelete(file_system, asset_filename,
                                         os_environ.SAVE_CLEAN_COPY, TRUE).files
           /\ response' = AssetDelete(file_system, asset_filename,
                                      os_environ.SAVE_CLEAN_COPY, TRUE).page
    /\ pc' = "done"
    /\ UNCHANGED <<parseVars, extractVars, runVars, callVars, styles_dir, prompts_dir>>

\* POST / of imageedit/app.py
create_app_index ==
    /\ pc = "edit"
    /\ \E asset_filename \in AssetFilenames :
           /\ request' = FormOf("app", asset_filename)
           /\ file_system' = AssetDelete(file_system, asset_filename,
                                         os_environ.SAVE_CLEAN_COPY, FALSE).files
           /\ response' = AssetDelete(file_system, asset_filename,
                                      os_environ.SAVE_CLEAN_COPY, FALSE).page
    /\ pc' = "done"
    /\ UNCHANGED <<parseVars, extractVars, runVars, callVars, styles_dir, prompts_dir>>

NextAssets == index \/ create_app_index

SpecAssets == InitAssets /\ [][NextAssets]_vars

InsideAssets(parts) == StartsWith(parts, AssetsDir)
HasDotDot(filename) == \E i \in 1..Len(filename.parts) : filename.parts[i] = ".."
LeadsOutside(filename) == ~InsideAssets(Joined(AssetsDir, filename))

\* C29 as stated: whatever asset_filename is submitted, every file the
\* request removes is inside the assets directory, and a name that leads
\* outside it removes nothing and reports "Asset file not found.".
C29_OnlyAssetsRemoved ==
    [][/\ \A parts \in file_system \ file_system' : InsideAssets(parts)
       /\ LeadsOutside(request'.asset_filename)
              => file_system' = file_system /\ response' = NotFoundPage]_vars

IsCleanCopyOf(parts, asset) ==
    /\ InsideAssets(asset)
    /\ Parent(parts) = CleanDir
    /\ LastComponent(parts) = LastComponent(asset)

\* C29, amended: every file the request removes is inside the assets
\* directory, or it is the file in <assets_dir>_clean that has the name of
\* the asset removed by the same request, which routes.py removes when
\* SAVE_CLEAN_COPY is on; and a name that leads outside the assets directory
\* removes nothing and reports "Asset file not found.".
C29_OnlyAssetsAndTheirCleanCopiesRemoved ==
    [][/\ \A parts \in file_system \ file_system' :
              \/ InsideAssets(parts)
              \/ /\ request'.handler = "routes"
                 /\ os_environ.SAVE_CLEAN_COPY = "1"
                 /\ \E asset \in file_system \ file_system' : IsCleanCopyOf(parts, asset)
       /\ LeadsOutside(request'.asset_filename)
              => file_system' = file_system /\ response' = NotFoundPage]_vars

\* a name with ".." that points at the clean copy was refused, and the copy is there
C29_Witness ==
    /\ pc = "done"
    /\ request # None
    /\ HasDotDot(request.asset_filename)
    /\ Joined(AssetsDir, request.asset_filename) = CleanCopy
    /\ CleanCopy \in file_system
    /\ response = NotFoundPage

\* an absolute name outside the assets directory is refused as well
AbsoluteNameRefused ==
    [][request'.asset_filename.absolute /\ LeadsOutside(request'.asset_filename)
           => file_system' = file_system /\ response' = NotFoundPage]_vars

\* app.py has no clean copies: it removes assets only
AppRemovesAssetsOnly ==
    [][request'.handler = "app"
           => \A parts \in file_system \ file_system' : InsideAssets(parts)]_vars

\* ---------------------------------------------------------------------------
\* upload_local_image (imageedit/services/uploads.py:11-25) with upload_image
\* (imagegen.py:377-385).
\*
\* file_system holds the files of the temporary directory, each the name
\* tempfile gave it.  A call runs in steps: the two tests, NamedTemporaryFile,
\* file.save, upload_image, and the unlink of the finally clause.  call_args
\* holds the argument and the locals of the running call, call_result what the
\* last call returned or raised.

MaxUploads == 2

ImageName == <<"a", ".", "p">>
BareName == <<"a">>
NestedName == <<"d", "/", "b", ".", "j">>
UploadNames == {<<>>, ImageName, BareName, NestedName}
\* the uploaded file: None, or an object with a filename that is truthy or not
\* (a werkzeug FileStorage is truthy when its filename is not empty)
FileStorage(filename, truthy) == [t |-> "file", filename |-> filename, truthy |-> truthy]
UploadFiles == {None} \cup {FileStorage(name, truthy) : name \in UploadNames, truthy \in BOOLEAN}

TempStems == {<<"t", "1">>, <<"t", "2">>, <<"t", "3">>}
TempFileSystems == {{}, {<<"t", "1">>}}

UploadedUrl == <<"h", "t", "t", "p", "s", ":", "/", "/", "f", "/", "u">>
\* what upload_image can do: no fal_client, upload_file raising, a URL
UploadOutcomes ==
    {Failure("RuntimeError", "fal_client is not installed"),
     Failure("Exception", "upload failed"),
     Success(Str(UploadedUrl))}

Frame(file, temp_path, pending, files_at_call, calls) ==
    [file |-> file, temp_path |-> temp_path, pending |-> pending,
     files_at_call |-> files_at_call, calls |-> calls]

InitUpload ==
    /\ pc = "idle"
    /\ file_system \in TempFileSystems
    /\ call_args = Frame(None, None, None, file_system, 0)
    /\ call_result = None
    /\ styles_dir = None /\ prompts_dir = None
    /\ request = None
    /\ response = None
    /\ NoParse
    /\ NoExtract
    /\ NoRun

uploadRest ==
    <<parseVars, extractVars, runVars, styles_dir, prompts_dir, request, response>>

\* api_upload calls upload_local_image(file)
CallUpload ==
    /\ pc = "idle"
    /\ call_args.calls < MaxUploads
    /\ \E file \in UploadFiles :
           call_args' = Frame(file, None, None, file_system, call_args.calls + 1)
    /\ pc' = "called"
    /\ UNCHANGED <<file_system, call_result, uploadRest>>

\* lines 12-15
CheckFile ==
    /\ pc = "called"
    /\ IF call_args.file = None
       THEN /\ call_result' = Failure("ValueError", "No file provided")
            /\ pc' = "idle"
       ELSE IF ~call_args.file.truthy
       THEN /\ call_result' = Failure("ValueError", "No file provided")
            /\ pc' = "idle"
       ELSE IF call_args.file.filename = <<>>
       THEN /\ call_result' = Failure("ValueError", "No file selected")
            /\ pc' = "idle"
       ELSE /\ pc' = "create"
            /\ UNCHANGED call_result
    /\ UNCHANGED <<file_system, call_args, uploadRest>>

\* the name NamedTemporaryFile gives: a free stem and the suffix
TempName(stem, filename) == stem \o PathSuffix(PathName(filename))

\* lines 17-20: the file is created, with delete=False
CreateTemp ==
    /\ pc = "create"
    /\ \E stem \in TempStems :
           /\ TempName(stem, call_args.file.filename) \notin file_system
           /\ file_system' = file_system \cup {TempName(stem, call_args.file.filename)}
           /\ call_args' = [call_args EXCEPT
                                !.temp_path = Str(TempName(stem, call_args.file.filename))]
    /\ pc' = "save"
    /\ UNCHANGED <<call_result, uploadRest>>

\* lines 17-19: NamedTemporaryFile raises and creates nothing
CreateTempFails ==
    /\ pc = "create"
    /\ call_result' = Failure("OSError", "no usable temporary file")
    /\ pc' = "idle"
    /\ UNCHANGED <<file_system, call_args, uploadRest>>

\* line 21
SaveUpload ==
    /\ pc = "save"
    /\ pc' = "upload"
    /\ UNCHANGED <<file_system, call_args, call_result, uploadRest>>

\* line 21 raises: it is before the try, so only the with block is left,
\* which closes the file and, with delete=False, keeps it
SaveUploadFails ==
    /\ pc = "save"
    /\ call_result' = Failure("OSError", "save failed")
    /\ pc' = "idle"
    /\ UNCHANGED <<file_system, call_args, uploadRest>>

\* line 23: upload_image(temp_path), inside the try
UploadImage ==
    /\ pc = "upload"
    /\ \E outcome \in UploadOutcomes :
           call_args' = [call_args EXCEPT
                             !.pending = IF call_args.temp_path.s \in file_system
                                         THEN outcome
                                         ELSE Failure("FileNotFoundError", "File not found")]
    /\ pc' = "finally"
    /\ UNCHANGED <<file_system, call_result, uploadRest>>

\* lines 24-25: temp_path.unlink(), then the return or the exception
UnlinkTemp ==
    /\ pc = "finally"
    /\ file_system' = file_system \ {call_args.temp_path.s}
    /\ call_result' = call_args.pending
    /\ pc' = "idle"
    /\ UNCHANGED <<call_args, uploadRest>>

NextUpload ==
    \/ CallUpload
    \/ CheckFile
    \/ CreateTemp
    \/ CreateTempFails
    \/ SaveUpload
    \/ SaveUploadFails
    \/ UploadImage
    \/ UnlinkTemp

SpecUpload == InitUpload /\ [][NextUpload]_vars

UploadEnded == pc = "idle" /\ call_args.calls > 0
CreatedTemp == call_args.temp_path # None
NoFileGiven ==
    \/ call_args.file = None
    \/ ~call_args.file.truthy
    \/ call_args.file.filename = <<>>

\* C30: when upload_local_image has returned or raised, the temporary file it
\* created is gone, and when no file or no file name was given it has raised
\* ValueError and created none.
C30_NoTemporaryFileLeft ==
    UploadEnded =>
        /\ CreatedTemp => call_args.temp_path.s \notin file_system
        /\ NoFileGiven => /\ ~CreatedTemp
                          /\ ~call_result.ok /\ call_result.kind = "ValueError"
                          /\ file_system = call_args.files_at_call

\* once the upload was saved, the file is gone whatever upload_image did
SavedUploadLeavesNothing ==
    UploadEnded /\ CreatedTemp /\ call_result.why # "save failed"
        => file_system = call_args.files_at_call

\* a call without file or file name leaves the directory as it was
NoFileCreatesNothing ==
    UploadEnded /\ NoFileGiven
        => ~CreatedTemp /\ ~call_result.ok /\ call_result.kind = "ValueError"
           /\ file_system = call_args.files_at_call

\* the failing save is the one way a temporary file stays
OnlyFailedSaveLeavesFile ==
    UploadEnded /\ CreatedTemp /\ call_args.temp_path.s \in file_system
        => ~call_result.ok /\ call_result.why = "save failed"

====
